---- MODULE Spec2Model ----
(***************************************************************************)
(* Model of pagmo::island (src/src/island.cpp) and of the self-adaptive    *)
(* differential evolution (src/src/algorithm/de_self_adaptive.cpp), as     *)
(* seven specifications over one set of variables; each leaves the         *)
(* variables of the others at their initial value.                         *)
(*                                                                         *)
(*   Spec        one caller thread issuing public calls on one island, and *)
(*               the evolution workers (int_evolver, t_evolver) the island *)
(*               runs either on a boost::thread or, when the island is     *)
(*               blocking, on the calling thread                           *)
(*   SpecOwn     the constructors of the algorithm and of the island, and  *)
(*               the objects the island owns and hands out                 *)
(*   SpecSample  the seven index-sampling loops of a trial                 *)
(*   SpecSADE    one call of de_self_adaptive::evolve on a population      *)
(*   SpecIters   the loop of evolve over the generations and its exit      *)
(*               conditions, a generation's sweep being one step           *)
(*   SpecCross   the construction of one trial vector by the block of the  *)
(*               variant, one evaluation of a loop condition being a step  *)
(*   SpecMigr    accept_immigrants and get_emigrants of the island         *)
(*                                                                         *)
(* In Spec:                                                                *)
(* The population and the algorithm are abstracted to their is_blocking()  *)
(* flag; the history variable modified records whether a call that may     *)
(* modify them has been made since the last evolver was dispatched, and    *)
(* each evolver counts the calls it has made to the barrier, the hooks,    *)
(* the algorithm and the interruption check-point.                         *)
(* The clock is a nondeterministic source of measured differences in ms.   *)
(***************************************************************************)
EXTENDS Integers, FiniteSets, Sequences, TLC

\* ---- bounds of the model ------------------------------------------------
MaxWorkers == 2      \* evolver objects created over a run
MaxN == 2            \* largest n passed to evolve(n)
MaxT == 1            \* largest t passed to evolve_t(t)
MaxRounds == 2       \* rounds after which the clock of a t_evolver has advanced past t
MaxIslTime == 1      \* largest evolution time of the island assigned from
MaxRefs == 11        \* addresses at which objects can be allocated
MaxG == 1            \* largest number of generations passed to the algorithm's constructor
MaxNP == 8           \* largest population
MaxGens == 42        \* largest number of generations of the loop of SpecIters
MaxDc == 3           \* largest continuous dimension of the trial of SpecCross
MaxSlots == 2        \* largest population of the island of SpecMigr
MaxImm == 2          \* most immigrants, and most placements, of a migration

NoThread == 0
Workers == 1..MaxWorkers
TimeDiffs == {-1, 0, 1}

AccessorOps == {"get_evolution_time", "get_algorithm", "get_problem", "get_size",
                "get_migration_probability", "get_s_policy", "get_r_policy",
                "get_population", "human_readable", "human_readable_terse"}
JoiningOps == AccessorOps \cup {"evolve", "evolve_t", "join", "set_algorithm", "assign"}

VARIABLES
    m_pop,          \* [blocking]: the population; blocking is problem().is_blocking()
    m_algo,         \* [blocking]: the algorithm; blocking is is_blocking()
    modified,       \* [pop, algo]: modified since the last evolver was dispatched
    m_archi,        \* TRUE iff the archipelago back-pointer is non-null
    m_evo_time,     \* accumulated evolution time, ms
    m_evo_thread,   \* NoThread or the id of the boost::thread held by the scoped_ptr
    workers,        \* evolver objects, by id
    nworkers,       \* number of evolver objects created so far
    callerPc,       \* "idle", "join" (inside the leading join()), "run" (running an evolver itself)
    cur,            \* the call the caller is executing, and the state it found after its join()
    lastCall,       \* the last call that returned to the caller, and what it returned
    \* -- the objects of an island and of its user (specification SpecOwn)
    heap,           \* the objects that exist, by address
    island,         \* the island object: its members, the owned ones as addresses
    held,           \* the addresses the user holds
    last,           \* the last constructor or island call of the user, and its outcome
    \* -- the index sampling of the algorithm (specification SpecSample)
    smp,            \* [NP, i, k, r, again]: population size, individual, loop
                    \* reached, r1..r7 of the loops left, the loop has repeated
    \* -- one call of the algorithm's evolve (specification SpecSADE)
    de,             \* the de_self_adaptive object: its parameters, m_f and m_cr
    population,     \* the population evolved: its problem, individuals, champion
    ev,             \* the locals of evolve and the point the call has reached
    \* -- the main loop of evolve over the generations (specification SpecIters)
    iters,          \* [pc, gen, done, dx, mah, why]: the point reached, the generation,
                    \* the sweeps made, the last distances measured, why it returned
    \* -- the construction of one trial vector (specification SpecCross)
    xo,             \* the locals of the crossover loop and the blocks that have run
    \* -- the island's migration methods (specification SpecMigr)
    mig             \* the island's population, the immigrants and the placements

islandVars == <<m_pop, m_algo, modified, m_archi, m_evo_time, m_evo_thread, workers, nworkers, callerPc, cur, lastCall>>
algVars == <<heap, island, held, last, smp, de, population, ev, iters, xo, mig>>
ownFrame == <<islandVars, smp, de, population, ev, iters, xo, mig>>
sampleFrame == <<islandVars, heap, island, held, last, de, population, ev, iters, xo, mig>>
sadeFrame == <<islandVars, heap, island, held, last, smp, iters, xo, mig>>
itersFrame == <<islandVars, heap, island, held, last, smp, population, ev, xo, mig>>
crossFrame == <<islandVars, heap, island, held, last, smp, de, population, ev, iters, mig>>
migrFrame == <<islandVars, heap, island, held, last, smp, de, population, ev, iters, xo>>
vars == <<islandVars, algVars>>

NoWorker ==
    [kind |-> "none", sync |-> FALSE, pc |-> "unborn", n |-> 0, i |-> 0, rounds |-> 0,
     intr |-> FALSE, req |-> FALSE, joined |-> FALSE, outcome |-> "none", lastDiff |-> -1,
     afterIntr |-> FALSE, syncs |-> 0, pres |-> 0, posts |-> 0, polls |-> 0]

NoCall ==
    [op |-> "none", n |-> 0, exc |-> "none", busy |-> FALSE, live |-> FALSE,
     pre |-> [time |-> 0, thread |-> NoThread,
              pop |-> [blocking |-> FALSE], algo |-> [blocking |-> FALSE]]]

\* the island before any call, for the specifications that are not about its
\* evolution
IslandIdle ==
    /\ m_pop = [blocking |-> FALSE]
    /\ m_algo = [blocking |-> FALSE]
    /\ modified = [pop |-> FALSE, algo |-> FALSE]
    /\ m_archi = FALSE
    /\ m_evo_time = 0
    /\ m_evo_thread = NoThread
    /\ workers = [w \in Workers |-> NoWorker]
    /\ nworkers = 0
    /\ callerPc = "idle"
    /\ cur = [op |-> "none", pre |-> NoCall.pre]
    /\ lastCall = NoCall

\* ---- objects and their owners -------------------------------------------

Refs == 1..MaxRefs
NullRef == 0

\* an address at which no object lives
NoObject == [kind |-> "free", val |-> 0, prob |-> NullRef, src |-> "none"]

\* no island object: none constructed yet, or the constructor threw
NoIsland ==
    [state |-> "none", m_pop |-> NullRef, m_algo |-> NullRef, m_s_policy |-> NullRef,
     m_r_policy |-> NullRef, m_archi |-> FALSE, m_evo_time |-> 0, m_evo_thread |-> NoThread,
     m_migr_prob |-> 0]

NoOp == [op |-> "none", exc |-> "none", ref |-> NullRef, gen |-> 0, variant |-> 0, adptv |-> 0, p |-> 0]

\* no object exists: the specifications that are not about ownership
OwnIdle ==
    /\ heap = <<>>
    /\ island = NoIsland
    /\ held = {}
    /\ last = NoOp

\* number of indices r1..r7 the algorithm samples for a trial
NIdx == 7

\* no index drawn yet
NoSample ==
    [NP |-> 0, i |-> 0, k |-> 1, r |-> [j \in 1..NIdx |-> -1], again |-> FALSE]

\* no sampling going on: the specifications that are not about it
SampleIdle == smp = NoSample

\* locals that no call has set up: no call of evolve, the main loop not
\* entered, no trial under construction, no migration
NotCalled(locals) == locals = [pc |-> "none"]

\* no algorithm object, no population, no call of evolve
SadeIdle == de = <<>> /\ population = <<>> /\ NotCalled(ev)

\* island::island: evolution time zero, no thread; the archipelago pointer is
\* null after construction and is set by the archipelago the island is pushed to.
Init ==
    /\ m_pop \in [blocking : BOOLEAN]
    /\ m_algo \in [blocking : BOOLEAN]
    /\ modified = [pop |-> FALSE, algo |-> FALSE]
    /\ m_archi \in BOOLEAN
    /\ m_evo_time = 0
    /\ m_evo_thread = NoThread
    /\ workers = [w \in Workers |-> NoWorker]
    /\ nworkers = 0
    /\ callerPc = "idle"
    /\ cur = [op |-> "none", pre |-> NoCall.pre]
    /\ lastCall = NoCall
    /\ OwnIdle
    /\ SampleIdle
    /\ SadeIdle
    /\ NotCalled(iters)
    /\ NotCalled(xo)
    /\ NotCalled(mig)

\* an is_blocking() that forgets to ask the problem
is_blocking_algo_only == m_algo.blocking

\* island::is_blocking
is_blocking == m_pop.blocking \/ m_algo.blocking

\* the island state an evolve / evolve_t call finds after its join()
Snapshot == [time |-> m_evo_time, thread |-> m_evo_thread, pop |-> m_pop, algo |-> m_algo]

\* a worker thread that has been started and has not terminated
LiveWorkers == {w \in Workers : workers[w].pc \notin {"unborn", "done"} /\ ~workers[w].sync}

\* a join() that does not wait
join_nowait == TRUE

\* island::join: returns at once without a thread, else when the thread has terminated
join_returns == IF m_evo_thread = NoThread THEN TRUE ELSE workers[m_evo_thread].pc = "done"

\* effect of boost::thread::join on the thread object: no longer joinable
Joined(ws) ==
    IF m_evo_thread = NoThread THEN ws ELSE [ws EXCEPT ![m_evo_thread].joined = TRUE]

\* an evolver whose thread object (or, on a blocking island, the local
\* evolver object) has been destroyed
Gone == [NoWorker EXCEPT !.pc = "done"]

\* scoped_ptr::reset destroys the boost::thread held so far; a thread that is
\* still running is detached and keeps running
Release(ws) ==
    IF m_evo_thread # NoThread /\ ws[m_evo_thread].pc = "done"
    THEN [ws EXCEPT ![m_evo_thread] = Gone]
    ELSE ws

\* an evolver that inherits the interruption request of the thread it replaces
NewWorker_carry(kind, n, sync) ==
    [NoWorker EXCEPT !.kind = kind, !.sync = sync, !.pc = "start", !.n = n,
                     !.afterIntr = IF m_evo_thread = NoThread THEN FALSE
                                   ELSE workers[m_evo_thread].outcome = "interrupted",
                     !.intr = IF m_evo_thread = NoThread THEN FALSE
                              ELSE workers[m_evo_thread].outcome = "interrupted"]

\* the evolver object built by evolve / evolve_t, with a thread of its own
\* unless sync; afterIntr remembers that the thread it replaces was interrupted
NewWorker(kind, n, sync) ==
    [NoWorker EXCEPT !.kind = kind, !.sync = sync, !.pc = "start", !.n = n,
                     !.afterIntr = IF m_evo_thread = NoThread THEN FALSE
                                   ELSE workers[m_evo_thread].outcome = "interrupted"]

\* ---- the caller ---------------------------------------------------------

\* The caller enters one of the public methods that start with join() and
\* reaches that join(). Which method it is has no effect before the join()
\* returns, so the method (and its argument) is chosen by the action that
\* continues after the join(). lastCall is emptied while a call is in progress.
Enter ==
    /\ callerPc = "idle"
    /\ callerPc' = "join"
    /\ lastCall' = NoCall
    /\ UNCHANGED <<m_pop, m_algo, modified, m_archi, m_evo_time, m_evo_thread, workers, nworkers, cur>>
    /\ UNCHANGED algVars

\* what a call records when it returns to the caller
Returned(op, n, exc) ==
    [op |-> op, n |-> n, exc |-> exc, busy |-> FALSE, live |-> LiveWorkers # {}, pre |-> NoCall.pre]

\* island::evolve / island::evolve_t after the leading join(): the numeric_cast
\* of a negative argument throws; a blocking island runs the evolver on the
\* calling thread; otherwise a thread is created for it (or creation fails).
\* A new evolver is only created while the model has ids left.
Dispatch(op, kind, maxArg) ==
    /\ callerPc = "join"
    /\ join_returns
    /\ nworkers < MaxWorkers
    /\ \E n \in (-1)..maxArg :
        \/ /\ n < 0
           /\ workers' = Joined(workers)
           /\ lastCall' = Returned(op, n, "bad_numeric_cast")
           /\ callerPc' = "idle"
           /\ UNCHANGED <<m_evo_thread, nworkers, cur, modified>>
        \/ /\ n >= 0
           /\ is_blocking
           /\ workers' = [Joined(workers) EXCEPT ![nworkers + 1] = NewWorker(kind, n, TRUE)]
           /\ nworkers' = nworkers + 1
           /\ modified' = [pop |-> FALSE, algo |-> FALSE]
           /\ cur' = [op |-> op, pre |-> Snapshot]
           /\ callerPc' = "run"
           /\ UNCHANGED <<m_evo_thread, lastCall>>
        \/ /\ n >= 0
           /\ ~is_blocking
           /\ workers' = [Release(Joined(workers)) EXCEPT ![nworkers + 1] = NewWorker(kind, n, FALSE)]
           /\ nworkers' = nworkers + 1
           /\ m_evo_thread' = nworkers + 1
           /\ modified' = [pop |-> FALSE, algo |-> FALSE]
           /\ lastCall' = [Returned(op, n, "none") EXCEPT !.pre = Snapshot]
           /\ callerPc' = "idle"
           /\ UNCHANGED cur
        \/ /\ n >= 0
           /\ ~is_blocking
           /\ workers' = Joined(workers)
           /\ lastCall' = Returned(op, n, "runtime_error")
           /\ callerPc' = "idle"
           /\ UNCHANGED <<m_evo_thread, nworkers, cur, modified>>
    /\ UNCHANGED <<m_pop, m_algo, m_archi, m_evo_time>>
    /\ UNCHANGED algVars

\* island::evolve
evolve == Dispatch("evolve", "int", MaxN)

\* island::evolve_t
evolve_t == Dispatch("evolve_t", "t", MaxT)

\* evolve / evolve_t on a blocking island return when ev() has returned or thrown
evolve_return ==
    /\ callerPc = "run"
    /\ workers[nworkers].pc = "done"
    /\ lastCall' = [op |-> cur.op, n |-> workers[nworkers].n,
                    exc |-> IF workers[nworkers].outcome = "error" THEN "error" ELSE "none",
                    busy |-> FALSE, live |-> LiveWorkers # {}, pre |-> cur.pre]
    /\ workers' = [workers EXCEPT ![nworkers] = Gone]
    /\ cur' = [cur EXCEPT !.pre = NoCall.pre]
    /\ callerPc' = "idle"
    /\ UNCHANGED <<m_pop, m_algo, modified, m_archi, m_evo_time, m_evo_thread, nworkers>>
    /\ UNCHANGED algVars

\* island::join called by the user
join ==
    /\ callerPc = "join"
    /\ join_returns
    /\ workers' = Joined(workers)
    /\ lastCall' = Returned("join", 0, "none")
    /\ callerPc' = "idle"
    /\ UNCHANGED <<m_pop, m_algo, modified, m_archi, m_evo_time, m_evo_thread, nworkers, cur>>
    /\ UNCHANGED algVars

\* the getters and the human_readable reports: join(), then read
Accessor(op) ==
    /\ callerPc = "join"
    /\ op \in AccessorOps
    /\ join_returns
    /\ workers' = Joined(workers)
    /\ lastCall' = Returned(op, 0, "none")
    /\ callerPc' = "idle"
    /\ UNCHANGED <<m_pop, m_algo, modified, m_archi, m_evo_time, m_evo_thread, nworkers, cur>>
    /\ UNCHANGED algVars

\* island::set_algorithm: join(), then replace the algorithm by a clone of algo
set_algorithm ==
    /\ callerPc = "join"
    /\ join_returns
    /\ \E algo \in [blocking : BOOLEAN] : m_algo' = algo
    /\ modified' = [modified EXCEPT !.algo = TRUE]
    /\ workers' = Joined(workers)
    /\ lastCall' = Returned("set_algorithm", 0, "none")
    /\ callerPc' = "idle"
    /\ UNCHANGED <<m_pop, m_archi, m_evo_time, m_evo_thread, nworkers, cur>>
    /\ UNCHANGED algVars

\* island::operator= from another island isl (this != &isl): both joined, then
\* every member copied from isl and the thread pointer reset
assign ==
    /\ callerPc = "join"
    /\ join_returns
    /\ \E isl \in [pop : [blocking : BOOLEAN], algo : [blocking : BOOLEAN],
                   archi : BOOLEAN, evo_time : 0..MaxIslTime] :
        /\ m_pop' = isl.pop
        /\ m_algo' = isl.algo
        /\ m_archi' = isl.archi
        /\ m_evo_time' = isl.evo_time
    /\ modified' = [pop |-> TRUE, algo |-> TRUE]
    /\ m_evo_thread' = NoThread
    /\ workers' = Release(Joined(workers))
    /\ lastCall' = Returned("assign", 0, "none")
    /\ callerPc' = "idle"
    /\ UNCHANGED <<nworkers, cur>>
    /\ UNCHANGED algVars

\* island::operator= with this == &isl: nothing is done, not even join()
assign_self ==
    /\ callerPc = "idle"
    /\ lastCall' = Returned("assign_self", 0, "none")
    /\ UNCHANGED <<m_pop, m_algo, modified, m_archi, m_evo_time, m_evo_thread, workers, nworkers, callerPc, cur>>
    /\ UNCHANGED algVars

\* an interrupt() that only raises while the thread can still be joined
interrupt_raises_if_joinable ==
    IF m_evo_thread = NoThread THEN FALSE ELSE ~workers[m_evo_thread].joined

\* if (m_evo_thread)
interrupt_raises == m_evo_thread # NoThread

\* island::interrupt: no join(); with a thread pointer, interrupt it and
\* throw. boost::thread::interrupt sets the interruption request of a thread
\* that has not been joined (req remembers that it was ever set)
interrupt ==
    /\ callerPc = "idle"
    /\ IF interrupt_raises
       THEN /\ workers' = IF workers[m_evo_thread].joined THEN workers
                          ELSE [workers EXCEPT ![m_evo_thread].intr = TRUE,
                                               ![m_evo_thread].req = TRUE]
            /\ lastCall' = Returned("interrupt", 0, "runtime_error")
       ELSE /\ workers' = workers
            /\ lastCall' = Returned("interrupt", 0, "none")
    /\ UNCHANGED <<m_pop, m_algo, modified, m_archi, m_evo_time, m_evo_thread, nworkers, callerPc, cur>>
    /\ UNCHANGED algVars

\* a busy() that only looks at the thread pointer
busy_value_handle == m_evo_thread # NoThread

\* value of island::busy: a thread pointer exists and the thread is joinable
busy_value == IF m_evo_thread = NoThread THEN FALSE ELSE ~workers[m_evo_thread].joined

\* island::busy: no join()
busy ==
    /\ callerPc = "idle"
    /\ lastCall' = [Returned("busy", 0, "none") EXCEPT !.busy = busy_value]
    /\ UNCHANGED <<m_pop, m_algo, modified, m_archi, m_evo_time, m_evo_thread, workers, nworkers, callerPc, cur>>
    /\ UNCHANGED algVars

\* ---- the evolvers (int_evolver, t_evolver) -------------------------------

\* a round that never calls the pre_evolution hook
BodyEntry_no_hook == "evolve"

\* first step of a round: the pre_evolution hook exists only in an archipelago
BodyEntry == IF m_archi THEN "pre" ELSE "evolve"

\* an operator() that catches the exception on a blocking island too
Raise_caught_always(w, how) ==
    [workers[w] EXCEPT !.outcome = how, !.pc = "time"]

\* An exception leaves juice_impl. operator() catches it on a non-blocking
\* island and goes on to the time computation; on a blocking island it
\* propagates out of operator(), past the time computation.
Raise(w, how) ==
    [workers[w] EXCEPT !.outcome = how, !.pc = IF is_blocking THEN "done" ELSE "time"]

\* juice_impl: start time taken; barrier only in an archipelago and non-blocking
w_start(w) ==
    /\ workers[w].pc = "start"
    /\ workers' = [workers EXCEPT ![w].pc =
                       IF m_archi /\ ~is_blocking THEN "sync"
                       ELSE IF workers[w].kind = "int" THEN "loop" ELSE BodyEntry]
    /\ UNCHANGED <<m_pop, m_algo, modified, m_archi, m_evo_time, m_evo_thread, nworkers, callerPc, cur, lastCall>>
    /\ UNCHANGED algVars

\* archipelago::sync_island_start returns once the sibling islands have arrived
w_sync(w) ==
    /\ workers[w].pc = "sync"
    /\ workers' = [workers EXCEPT ![w].syncs = @ + 1,
                                  ![w].pc = IF workers[w].kind = "int" THEN "loop" ELSE BodyEntry]
    /\ UNCHANGED <<m_pop, m_algo, modified, m_archi, m_evo_time, m_evo_thread, nworkers, callerPc, cur, lastCall>>
    /\ UNCHANGED algVars

\* a loop that runs one round too many
int_continue_le(i, n) == i <= n

\* loop condition of int_evolver::juice_impl
int_continue(i, n) == i < n

\* for (i = 0; i < m_n; ++i): enter the round or leave the loop
w_loop(w) ==
    /\ workers[w].pc = "loop"
    /\ workers' = [workers EXCEPT ![w] =
                      IF int_continue(workers[w].i, workers[w].n)
                      THEN [@ EXCEPT !.pc = BodyEntry]
                      ELSE [@ EXCEPT !.pc = "time", !.outcome = "normal"]]
    /\ UNCHANGED <<m_pop, m_algo, modified, m_archi, m_evo_time, m_evo_thread, nworkers, callerPc, cur, lastCall>>
    /\ UNCHANGED algVars

\* hooks whose island methods would start with join(), like the public ones
hooks_return_after_join == join_returns

\* accept_immigrants and get_emigrants hold no join(): the hooks that call
\* them return without waiting for the thread of the island
hooks_return == TRUE

\* m_archi->pre_evolution(*m_i): hands the queued immigrants to
\* accept_immigrants, which may rewrite population slots, or throws
w_pre(w) ==
    /\ workers[w].pc = "pre"
    /\ hooks_return
    /\ \/ /\ modified' = [modified EXCEPT !.pop = TRUE]
          /\ workers' = [workers EXCEPT ![w].pres = @ + 1, ![w].pc = "evolve"]
       \/ /\ workers' = [workers EXCEPT ![w] = [Raise(w, "error") EXCEPT !.pres = @ + 1]]
          /\ UNCHANGED modified
    /\ UNCHANGED <<m_pop, m_algo, m_archi, m_evo_time, m_evo_thread, nworkers, callerPc, cur, lastCall>>
    /\ UNCHANGED algVars

\* m_algo->evolve(m_pop): one more call; it may change the population and the
\* algorithm's adapted parameters, also when it throws part-way
w_evolve(w) ==
    /\ workers[w].pc = "evolve"
    /\ modified' = [pop |-> TRUE, algo |-> TRUE]
    /\ \/ workers' = [workers EXCEPT ![w].rounds = @ + 1,
                                     ![w].pc = IF m_archi THEN "post" ELSE "check"]
       \/ workers' = [workers EXCEPT ![w] = [Raise(w, "error") EXCEPT !.rounds = @ + 1]]
    /\ UNCHANGED <<m_pop, m_algo, m_archi, m_evo_time, m_evo_thread, nworkers, callerPc, cur, lastCall>>
    /\ UNCHANGED algVars

\* m_archi->post_evolution(*m_i): reads the emigrants, or throws
w_post(w) ==
    /\ workers[w].pc = "post"
    /\ hooks_return
    /\ \/ workers' = [workers EXCEPT ![w].posts = @ + 1, ![w].pc = "check"]
       \/ workers' = [workers EXCEPT ![w] = [Raise(w, "error") EXCEPT !.posts = @ + 1]]
    /\ UNCHANGED <<m_pop, m_algo, modified, m_archi, m_evo_time, m_evo_thread, nworkers, callerPc, cur, lastCall>>
    /\ UNCHANGED algVars

\* a check-point that never throws
interruption_point_never(wk) == FALSE

\* boost::this_thread::interruption_point throws iff an interruption was requested
interruption_point(wk) == wk.intr

\* a thread_interrupted that operator() does not catch
Interruption_uncaught(wk) ==
    [wk EXCEPT !.polls = @ + 1, !.intr = FALSE, !.outcome = "interrupted", !.pc = "done"]

\* the check-point throws thread_interrupted (which clears the request);
\* operator() catches it and goes on to the time computation
Interruption(wk) ==
    [wk EXCEPT !.polls = @ + 1, !.intr = FALSE, !.outcome = "interrupted", !.pc = "time"]

\* a check-point that is polled on a blocking island too
Polled_always(polls) == polls + 1

\* number of check-points polled, after the check-point of this round: the
\* check-point is polled only on a non-blocking island
Polled(polls) == IF is_blocking THEN polls ELSE polls + 1

\* if (!is_blocking()) interruption_point(); then ++i (int_evolver) or the
\* time measurement of the while condition (t_evolver)
w_check(w) ==
    /\ workers[w].pc = "check"
    /\ workers' = [workers EXCEPT ![w] =
                      IF ~is_blocking /\ interruption_point(workers[w])
                      THEN Interruption(@)
                      ELSE IF workers[w].kind = "int"
                           THEN [@ EXCEPT !.polls = Polled(@), !.i = @ + 1, !.pc = "loop"]
                           ELSE [@ EXCEPT !.polls = Polled(@), !.pc = "tcheck"]]
    /\ UNCHANGED <<m_pop, m_algo, modified, m_archi, m_evo_time, m_evo_thread, nworkers, callerPc, cur, lastCall>>
    /\ UNCHANGED algVars

\* a while condition that takes a negative diff for "time is up"
t_continue_neg_stops(diff, t) == diff >= 0 /\ diff < t

\* while condition of t_evolver::juice_impl on the measured diff (ms)
t_continue(diff, t) == diff < 0 \/ diff < t

\* diff = local_time() - start; } while (...): the clock shows any
\* difference from -1 ms on, and one of at least t after MaxRounds rounds
w_tcheck(w) ==
    /\ workers[w].pc = "tcheck"
    /\ \E diff \in {d \in (-1)..MaxT : workers[w].rounds >= MaxRounds => d >= workers[w].n} :
        workers' = [workers EXCEPT ![w] =
                       IF t_continue(diff, workers[w].n)
                       THEN [@ EXCEPT !.lastDiff = diff, !.pc = BodyEntry]
                       ELSE [@ EXCEPT !.lastDiff = diff, !.pc = "time", !.outcome = "normal"]]
    /\ UNCHANGED <<m_pop, m_algo, modified, m_archi, m_evo_time, m_evo_thread, nworkers, callerPc, cur, lastCall>>
    /\ UNCHANGED algVars

\* an update that adds the diff whatever its sign
evo_time_add_unchecked(time, diff) == time + diff

\* m_evo_time += diff only for a non-negative measured diff
evo_time_add(time, diff) == IF diff >= 0 THEN time + diff ELSE time

\* end of operator(): the evolution time is updated and the evolver returns
w_time(w) ==
    /\ workers[w].pc = "time"
    /\ \E diff \in TimeDiffs : m_evo_time' = evo_time_add(m_evo_time, diff)
    /\ workers' = [workers EXCEPT ![w].pc = "done"]
    /\ UNCHANGED <<m_pop, m_algo, modified, m_archi, m_evo_thread, nworkers, callerPc, cur, lastCall>>
    /\ UNCHANGED algVars

Next ==
    \/ Enter
    \/ evolve
    \/ evolve_t
    \/ evolve_return
    \/ join
    \/ \E op \in AccessorOps : Accessor(op)
    \/ set_algorithm
    \/ assign
    \/ assign_self
    \/ interrupt
    \/ busy
    \/ \E w \in Workers :
        \/ w_start(w)
        \/ w_sync(w)
        \/ w_loop(w)
        \/ w_pre(w)
        \/ w_evolve(w)
        \/ w_post(w)
        \/ w_check(w)
        \/ w_tcheck(w)
        \/ w_time(w)

Spec == Init /\ [][Next]_vars

\* ---- the island of an archipelago, its threads being scheduled ----------
\* The calls that dispatch, wait for and interrupt the evolvers, on an island
\* that is in an archipelago. A thread that can take a step eventually takes
\* it: the operating system schedules it, the barrier of the archipelago
\* opens, the algorithm and the hooks return.

InitHooks == Init /\ m_archi

WorkerStep(w) ==
    \/ w_start(w)
    \/ w_sync(w)
    \/ w_loop(w)
    \/ w_pre(w)
    \/ w_evolve(w)
    \/ w_post(w)
    \/ w_check(w)
    \/ w_tcheck(w)
    \/ w_time(w)

NextHooks ==
    \/ Enter
    \/ evolve
    \/ evolve_t
    \/ evolve_return
    \/ join
    \/ interrupt
    \/ \E w \in Workers : WorkerStep(w)

SpecHooks == InitHooks /\ [][NextHooks]_vars /\ \A w \in Workers : WF_vars(WorkerStep(w))

\* ---- construction and ownership (SpecOwn) --------------------------------
\* The user constructs an algorithm and an island and then uses the island's
\* accessors. Objects live at addresses; val stands for the content of an
\* object, which its holder can change, and src remembers who made it. No
\* evolution is started here, so the join() that opens every accessor
\* returns at once.

MinVariant == 1
MaxVariant == 18
MinAdptv == 0
MaxAdptv == 1

\* migration probabilities are counted in units of 1 / Unit
Unit == 2

FreeRefs(h) == {r \in Refs : h[r].kind = "free"}
NewRef(h) == CHOOSE r \in FreeRefs(h) : \A q \in FreeRefs(h) : r <= q

\* new T(*this): a new object with the content of the object at r
clone(h, r, by) ==
    [heap |-> [h EXCEPT ![NewRef(h)] = [h[r] EXCEPT !.src = by]], ref |-> NewRef(h)]

\* copy of a population: the copy has a clone of the problem of its own
copy_population(h, r, by) ==
    LET pc == clone(h, h[r].prob, by)
        np == NewRef(pc.heap)
    IN  [heap |-> [pc.heap EXCEPT ![np] = [h[r] EXCEPT !.prob = pc.ref, !.src = by]], ref |-> np]

\* the objects the island owns
IslandRefs ==
    IF island.state = "none" THEN {}
    ELSE {island.m_algo, island.m_pop, heap[island.m_pop].prob, island.m_s_policy, island.m_r_policy}

\* the user has a problem and two policies; no algorithm and no island yet
InitOwn ==
    /\ heap = [r \in Refs |->
                 IF r = 1 THEN [kind |-> "prob", val |-> 0, prob |-> NullRef, src |-> "user"]
                 ELSE IF r = 2 THEN [kind |-> "s_policy", val |-> 0, prob |-> NullRef, src |-> "user"]
                 ELSE IF r = 3 THEN [kind |-> "r_policy", val |-> 0, prob |-> NullRef, src |-> "user"]
                 ELSE NoObject]
    /\ island = NoIsland
    /\ held = {1, 2, 3}
    /\ last = NoOp
    /\ IslandIdle
    /\ SampleIdle
    /\ SadeIdle
    /\ NotCalled(iters)
    /\ NotCalled(xo)
    /\ NotCalled(mig)

\* a check of the variant that stops at the ten variants of plain DE
variant_invalid_10(variant) == variant < 1 \/ variant > 10

variant_invalid(variant) == variant < MinVariant \/ variant > MaxVariant

\* the three checks of de_self_adaptive::de_self_adaptive
sade_ctor_throws(gen, variant, adptv) ==
    \/ gen < 0
    \/ variant_invalid(variant)
    \/ adptv < MinAdptv \/ adptv > MaxAdptv

\* de_self_adaptive::de_self_adaptive(gen, variant, variant_adptv, ...): the
\* user constructs the algorithm, or gets a value_error and no object
de_self_adaptive_ctor ==
    /\ island.state = "none"
    /\ \A r \in held : heap[r].kind # "algo"
    /\ FreeRefs(heap) # {}
    /\ \E gen \in (-1)..MaxG, variant \in (MinVariant - 1)..(MaxVariant + 1),
          adptv \in (MinAdptv - 1)..(MaxAdptv + 1) :
        IF sade_ctor_throws(gen, variant, adptv)
        THEN /\ last' = [NoOp EXCEPT !.op = "de_self_adaptive", !.exc = "value_error",
                                      !.gen = gen, !.variant = variant, !.adptv = adptv]
             /\ UNCHANGED <<heap, held>>
        ELSE /\ heap' = [heap EXCEPT ![NewRef(heap)] =
                            [kind |-> "algo", val |-> 0, prob |-> NullRef, src |-> "user"]]
             /\ held' = held \cup {NewRef(heap)}
             /\ last' = [NoOp EXCEPT !.op = "de_self_adaptive", !.ref = NewRef(heap),
                                      !.gen = gen, !.variant = variant, !.adptv = adptv]
    /\ UNCHANGED island
    /\ UNCHANGED ownFrame

\* a check that takes probability 1 for invalid
migr_prob_invalid_ge(p) == p < 0 \/ p >= Unit

\* if (m_migr_prob < 0 || m_migr_prob > 1)
migr_prob_invalid(p) == p < 0 \/ p > Unit

\* the members as the initialiser list of island::island builds them
Constructed(a, prob, s_policy, r_policy, p) ==
    LET h0 == [heap EXCEPT ![NewRef(heap)] =
                   [kind |-> "pop", val |-> 0, prob |-> NullRef, src |-> "island"]]
        pop == NewRef(heap)
        c1 == clone(h0, prob, "island")
        h1 == [c1.heap EXCEPT ![pop].prob = c1.ref]
        c2 == clone(h1, a, "island")
        c3 == clone(c2.heap, s_policy, "island")
        c4 == clone(c3.heap, r_policy, "island")
    IN  [heap |-> c4.heap,
         island |-> [state |-> "constructed", m_pop |-> pop, m_algo |-> c2.ref,
                     m_s_policy |-> c3.ref, m_r_policy |-> c4.ref, m_archi |-> FALSE,
                     m_evo_time |-> 0, m_evo_thread |-> NoThread, m_migr_prob |-> p]]

\* island::island(p, a, n, migr_prob, s_policy, r_policy): the members are
\* built, then an invalid probability throws and the members are destroyed
island_ctor ==
    /\ island.state = "none"
    /\ Cardinality(FreeRefs(heap)) >= 5
    /\ \E a \in held, p \in (-1)..(Unit + 1) :
        /\ heap[a].kind = "algo"
        /\ IF migr_prob_invalid(p)
           THEN /\ last' = [NoOp EXCEPT !.op = "island", !.exc = "value_error", !.p = p]
                /\ UNCHANGED <<heap, island>>
           ELSE /\ heap' = Constructed(a, 1, 2, 3, p).heap
                /\ island' = Constructed(a, 1, 2, 3, p).island
                /\ last' = [NoOp EXCEPT !.op = "island", !.p = p]
    /\ UNCHANGED held
    /\ UNCHANGED ownFrame

\* an accessor hands its result to the user
Handed(op, v) ==
    /\ heap' = v.heap
    /\ held' = held \cup {v.ref}
    /\ last' = [NoOp EXCEPT !.op = op, !.ref = v.ref]
    /\ UNCHANGED island
    /\ UNCHANGED ownFrame

\* a get_algorithm that returns the island's own pointer
get_algorithm_shared == [heap |-> heap, ref |-> island.m_algo]

\* return m_algo->clone();
get_algorithm_value == clone(heap, island.m_algo, "accessor")

\* island::get_algorithm
get_algorithm ==
    /\ island.state = "constructed"
    /\ FreeRefs(heap) # {}
    /\ Handed("get_algorithm", get_algorithm_value)

\* island::get_problem: return m_pop.problem().clone();
get_problem ==
    /\ island.state = "constructed"
    /\ FreeRefs(heap) # {}
    /\ Handed("get_problem", clone(heap, heap[island.m_pop].prob, "accessor"))

\* island::get_s_policy: return m_s_policy->clone();
get_s_policy ==
    /\ island.state = "constructed"
    /\ FreeRefs(heap) # {}
    /\ Handed("get_s_policy", clone(heap, island.m_s_policy, "accessor"))

\* island::get_r_policy: return m_r_policy->clone();
get_r_policy ==
    /\ island.state = "constructed"
    /\ FreeRefs(heap) # {}
    /\ Handed("get_r_policy", clone(heap, island.m_r_policy, "accessor"))

\* island::get_population: return m_pop; (by value)
get_population ==
    /\ island.state = "constructed"
    /\ Cardinality(FreeRefs(heap)) >= 2
    /\ Handed("get_population", copy_population(heap, island.m_pop, "accessor"))

\* an object is destroyed when its last owner lets go of it
Destroy(h, r, owners) ==
    IF r \in owners THEN h
    ELSE [q \in Refs |-> IF q = r \/ (h[r].kind = "pop" /\ q = h[r].prob) THEN NoObject ELSE h[q]]

\* island::set_algorithm(algo): m_algo = algo.clone(); the algorithm held so
\* far is destroyed
own_set_algorithm ==
    /\ island.state = "constructed"
    /\ FreeRefs(heap) # {}
    /\ \E a \in held :
        /\ heap[a].kind = "algo"
        /\ LET v == clone(heap, a, "island") IN
            /\ heap' = Destroy(v.heap, island.m_algo, held)
            /\ island' = [island EXCEPT !.m_algo = v.ref]
        /\ last' = [NoOp EXCEPT !.op = "set_algorithm", !.ref = a]
    /\ UNCHANGED held
    /\ UNCHANGED ownFrame

\* the user changes an object an accessor gave it, or its own algorithm
mutate ==
    /\ \E r \in held :
        /\ heap[r].src = "accessor" \/ heap[r].kind = "algo"
        /\ heap' = [heap EXCEPT ![r].val = 1 - @]
        /\ last' = [NoOp EXCEPT !.op = "mutate", !.ref = r]
    /\ UNCHANGED <<island, held>>
    /\ UNCHANGED ownFrame

\* the user destroys an object an accessor gave it
drop ==
    /\ \E r \in held :
        /\ heap[r].src # "user"
        /\ held' = held \ {r}
        /\ heap' = Destroy(heap, r, IslandRefs)
        /\ last' = [NoOp EXCEPT !.op = "drop", !.ref = r]
    /\ UNCHANGED island
    /\ UNCHANGED ownFrame

NextOwn ==
    \/ de_self_adaptive_ctor
    \/ island_ctor
    \/ get_algorithm
    \/ get_problem
    \/ get_s_policy
    \/ get_r_policy
    \/ get_population
    \/ own_set_algorithm
    \/ mutate
    \/ drop

SpecOwn == InitOwn /\ [][NextOwn]_vars

\* ---- index sampling of the algorithm (SpecSample) -------------------------
\* The seven do-while loops that open the trial of individual i in
\* de_self_adaptive::evolve. evolve throws before it reaches them when the
\* population has fewer than MinNP individuals.

MinNP == 8

\* a check that lets a population of seven through
np_too_small_7(NP) == NP < 7

\* if (NP < 8)
np_too_small(NP) == NP < MinNP

InitSample ==
    /\ \E NP \in {n \in (MinNP - 1)..MaxNP : ~np_too_small(n)} :
        \E i \in 0..(NP - 1) :
            smp = [NoSample EXCEPT !.NP = NP, !.i = i]
    /\ IslandIdle
    /\ OwnIdle
    /\ SadeIdle
    /\ NotCalled(iters)
    /\ NotCalled(xo)
    /\ NotCalled(mig)

\* a loop that forgets to compare with the index drawn just before
Compared_skip(k) == 1..(k - 2)

\* the indices the k-th loop compares its draw with: r1 .. r(k-1)
Compared(k) == 1..(k - 1)

\* while condition of the k-th loop for the draw v
Collides(k, v) == v = smp.i \/ \E j \in Compared(k) : v = smp.r[j]

\* boost::uniform_int<int>(0,NP-1)(m_urng)
UrngDraws == 0..(smp.NP - 1)

\* one iteration of the k-th loop that draws a value its while condition
\* rejects: the loop repeats and overwrites the value, which is not kept here
redraw ==
    /\ smp.k <= NIdx
    /\ \E v \in UrngDraws :
        /\ Collides(smp.k, v)
        /\ smp' = [smp EXCEPT !.again = TRUE]
    /\ UNCHANGED sampleFrame

\* one iteration of the k-th loop that draws a value its while condition
\* lets through: the loop is left
accept ==
    /\ smp.k <= NIdx
    /\ \E v \in UrngDraws :
        /\ ~Collides(smp.k, v)
        /\ smp' = [smp EXCEPT !.r[smp.k] = v, !.k = @ + 1, !.again = FALSE]
    /\ UNCHANGED sampleFrame

NextSample == redraw \/ accept

\* every value of the uniform source has a positive probability in every
\* iteration, so a loop that can be left is left with probability 1
SpecSample == InitSample /\ [][NextSample]_vars /\ WF_vars(accept)

\* ---- one call of the algorithm's evolve (SpecSADE) ------------------------
\* Decision vectors are functions on 0..D-1 over the integers; F, CR and the
\* values of m_drng are kept in tenths, a product with them is rounded down.
\* best_x and best_f of an individual are not kept: evolve writes a slot only
\* when its fitness improves, so they equal cur_x and cur_f.

Tenths == 10

\* prob.get_lb(), prob.get_ub(): the same box in every component
LB == 0
UB == 4

\* the problems evolve is called with: dimension, integer dimension,
\* constraint dimension, fitness dimension
Problems ==
    { [D |-> 3, Di |-> 1, C |-> 0, Fd |-> 1],
      [D |-> 1, Di |-> 1, C |-> 0, Fd |-> 1],
      [D |-> 3, Di |-> 1, C |-> 1, Fd |-> 1],
      [D |-> 3, Di |-> 1, C |-> 0, Fd |-> 2] }

\* Dc = D - prob_i_dimension
ContinuousPart(prb) == prb.D - prb.Di

RECURSIVE SumTo(_, _)
SumTo(x, n) == IF n = 0 THEN 0 ELSE x[n - 1] + SumTo(x, n - 1)

Abs(a) == IF a < 0 THEN -a ELSE a

\* prob.objfun: the sum of the components, to be minimised
objfun(x) == SumTo(x, Cardinality(DOMAIN x))

\* problem::base::compare_fitness: a is strictly better than b
compare_fitness(a, b) == a < b

\* F * d for F in tenths
Times(F, d) == (F * d) \div Tenths

\* boost::uniform_real<double>(lo,hi): values of [lo, hi)
uniform_real(lo, hi) == {lo, hi - 1}

\* boost::normal_distribution<double>(mean,sigma), sigma in hundredths: two
\* values two sigma away from the mean
normal_distribution(mean, sigma) == {mean - sigma \div 5, mean + sigma \div 5}

\* m_drng(): a value of [0,1)
m_drng == uniform_real(0, Tenths)

\* pop.size()
pop_size == Cardinality(DOMAIN population.ind)

\* the individuals a population of NP starts with: the first at the upper
\* corner of the box, the others at the lower corner, which is the optimum;
\* the integer components at 1, no velocity
InitialX(i, NP, prb) ==
    [j \in 0..(prb.D - 1) |->
        IF j >= ContinuousPart(prb) THEN 1
        ELSE IF i = 0 THEN UB
        ELSE LB]

Individuals(NP, prb) ==
    [i \in 0..(NP - 1) |->
        [cur_x |-> InitialX(i, NP, prb),
         cur_v |-> [j \in 0..(prb.D - 1) |-> 0],
         cur_f |-> objfun(InitialX(i, NP, prb))]]

\* a population none of whose individuals is at the optimum: the first at
\* the upper corner of the box, the others one step above the lower corner
DistantX(i, NP, prb) ==
    [j \in 0..(prb.D - 1) |->
        IF j >= ContinuousPart(prb) THEN 1
        ELSE IF i = 0 THEN UB
        ELSE LB + 1]

\* population::get_best_idx, population::get_worst_idx: the first such slot
get_best_idx(p) ==
    LET BestSlots == {i \in DOMAIN p.ind :
                        \A k \in DOMAIN p.ind : ~compare_fitness(p.ind[k].cur_f, p.ind[i].cur_f)}
    IN  CHOOSE i \in BestSlots : \A k \in BestSlots : i <= k

get_worst_idx(p) ==
    LET WorstSlots == {i \in DOMAIN p.ind :
                         \A k \in DOMAIN p.ind : ~compare_fitness(p.ind[i].cur_f, p.ind[k].cur_f)}
    IN  CHOOSE i \in WorstSlots : \A k \in WorstSlots : i <= k

\* population::set_x: write the slot, recompute its fitness, update the champion
set_x(p, i, x) ==
    [p EXCEPT !.ind[i].cur_x = x,
              !.ind[i].cur_f = objfun(x),
              !.champion = IF compare_fitness(objfun(x), @.f)
                           THEN [x |-> x, f |-> objfun(x)] ELSE @]

\* population::set_v
set_v(p, i, v) == [p EXCEPT !.ind[i].cur_v = v]

\* m_f and m_cr as a call left them for NP individuals: every fourth value
\* is the largest draw, the others the smallest, ph says where they start
Drawn(NP, draws, ph) ==
    LET lo == CHOOSE a \in draws : \A b \in draws : a <= b
        hi == CHOOSE a \in draws : \A b \in draws : a >= b
    IN  [i \in 0..(NP - 1) |-> IF (i + ph) % 4 = 0 THEN hi ELSE lo]

\* the draws of lines 131-141 for the adaptation scheme
DrawnCR(NP, adptv, ph) ==
    Drawn(NP, IF adptv # 0 THEN normal_distribution(5, 15) ELSE uniform_real(0, Tenths), ph)

DrawnF(NP, adptv, ph) ==
    Drawn(NP, IF adptv # 0 THEN normal_distribution(5, 15) ELSE uniform_real(1, Tenths), ph)

\* the checks of lines 89-103
evolve_rejects(prb, NP) ==
    \/ ContinuousPart(prb) = 0
    \/ prb.C # 0
    \/ prb.Fd # 1
    \/ np_too_small(NP)

\* every algorithm on every problem with a population whose first individual
\* only can improve; one generation of the variants 15 to 18 on a population
\* all of whose individuals, the champion included, can improve
InitSADE ==
    /\ \/ /\ \E gen \in 0..MaxG, variant \in MinVariant..MaxVariant,
                 adptv \in MinAdptv..MaxAdptv,
                 su \in { [restart |-> FALSE, used |-> FALSE, xtol |-> 0, ftol |-> 0],
                          [restart |-> FALSE, used |-> TRUE, xtol |-> 1, ftol |-> 0],
                          [restart |-> TRUE, used |-> TRUE, xtol |-> 0, ftol |-> 1] } :
                de = [m_gen |-> gen, m_variant |-> variant, m_variant_adptv |-> adptv,
                      m_restart |-> su.restart, m_xtol |-> su.xtol, m_ftol |-> su.ftol,
                      m_f |-> IF su.used THEN DrawnF(MinNP, adptv, 1) ELSE <<>>,
                      m_cr |-> IF su.used THEN DrawnCR(MinNP, adptv, 1) ELSE <<>>]
          /\ \E prb \in Problems, NP \in {MinNP - 1, MinNP} :
                population = [prob |-> prb,
                              ind |-> Individuals(NP, prb),
                              champion |-> [x |-> InitialX(1, NP, prb),
                                            f |-> objfun(InitialX(1, NP, prb))]]
       \/ /\ \E variant \in 15..MaxVariant :
                de = [m_gen |-> 1, m_variant |-> variant, m_variant_adptv |-> 0,
                      m_restart |-> FALSE, m_xtol |-> 0, m_ftol |-> 0,
                      m_f |-> <<>>, m_cr |-> <<>>]
          /\ \E prb \in {q \in Problems : ~evolve_rejects(q, MinNP)} :
                population = [prob |-> prb,
                              ind |-> [i \in 0..(MinNP - 1) |->
                                         [cur_x |-> DistantX(i, MinNP, prb),
                                          cur_v |-> [j \in 0..(prb.D - 1) |-> 0],
                                          cur_f |-> objfun(DistantX(i, MinNP, prb))]],
                              champion |-> [x |-> DistantX(1, MinNP, prb),
                                            f |-> objfun(DistantX(1, MinNP, prb))]]
    /\ ev = [pc |-> "idle"]
    /\ IslandIdle
    /\ OwnIdle
    /\ SampleIdle
    /\ NotCalled(iters)
    /\ NotCalled(xo)
    /\ NotCalled(mig)

\* a condition that does not look at the restart flag
reinitialise_on_size(NP) ==
    \/ Cardinality(DOMAIN de.m_cr) # NP
    \/ Cardinality(DOMAIN de.m_f) # NP

\* if ( (m_cr.size() != NP) || (m_f.size() != NP) || (m_restart) )
reinitialise(NP) ==
    \/ Cardinality(DOMAIN de.m_cr) # NP
    \/ Cardinality(DOMAIN de.m_f) # NP
    \/ de.m_restart

\* evolve up to the first generation: the checks, the return for m_gen = 0,
\* the locals before the first generation (lines 110-128),
\* the locals and the F and CR vectors
evolve_enter ==
    /\ ev.pc = "idle"
    /\ IF evolve_rejects(population.prob, pop_size)
       THEN /\ ev' = [pc |-> "thrown"]
            /\ UNCHANGED de
       ELSE IF de.m_gen = 0
       THEN /\ ev' = [pc |-> "returned"]
            /\ UNCHANGED de
       ELSE /\ ev' = [pc |-> "sweep", gen |-> 0, i |-> 0,
                       popold |-> [i \in DOMAIN population.ind |-> population.ind[i].cur_x],
                       popnew |-> [i \in DOMAIN population.ind |-> population.ind[i].cur_x],
                       fit |-> [i \in DOMAIN population.ind |-> population.ind[i].cur_f],
                       gbX |-> population.champion.x,
                       gbfit |-> population.champion.f,
                       gbIter |-> population.champion.x,
                       fixed |-> FALSE, newfitness |-> 0]
            /\ IF reinitialise(pop_size)
               THEN de' = [de EXCEPT !.m_cr = DrawnCR(pop_size, de.m_variant_adptv, 0),
                                     !.m_f = DrawnF(pop_size, de.m_variant_adptv, 0)]
               ELSE UNCHANGED de
    /\ UNCHANGED population
    /\ UNCHANGED sadeFrame

\* r1..r7 as the loops of lines 148-179 leave them: the other individuals in
\* rising or in falling order
IdxTuples(i, NP) ==
    {r \in {[k \in 1..NIdx |-> (i + k) % NP], [k \in 1..NIdx |-> (i + NP - k) % NP]} :
        /\ \A k \in 1..NIdx : r[k] # i
        /\ \A k, h \in 1..NIdx : k # h => r[k] # r[h]}

\* an adaptation that uses the differences whatever the scheme
Adapted_by_differences(a, i, r, fresh) ==
    {a[i] + Times(n1, a[r[1]] - a[r[2]]) + Times(n2, a[r[3]] - a[r[4]])
          + Times(n3, a[r[5]] - a[r[6]]) :
        n1 \in normal_distribution(0, 50), n2 \in normal_distribution(0, 50),
        n3 \in normal_distribution(0, 50)}

\* F and CR of a trial (lines 182-191); a is the vector m_f or m_cr, fresh
\* the values of the uniform draw
Adapted(a, i, r, fresh) ==
    IF de.m_variant_adptv # 0
    THEN {a[i] + Times(n1, a[r[1]] - a[r[2]]) + Times(n2, a[r[3]] - a[r[4]])
               + Times(n3, a[r[5]] - a[r[6]]) :
            n1 \in normal_distribution(0, 50), n2 \in normal_distribution(0, 50),
            n3 \in normal_distribution(0, 50)}
    ELSE {IF u < 9 THEN a[i] ELSE w : u \in m_drng, w \in fresh}

\* the variants with exponential crossover (do-while); the others are binomial
Exponential(v) == v \in {1, 2, 3, 4, 5, 11, 13, 15, 17}

\* the mutant expression of the block of variant v for component j
Mutant(v, j, F, r, i) ==
    LET P == ev.popold
        G == ev.gbIter
        d12 == Times(F, P[r[1]][j] - P[r[2]][j])
        d34 == Times(F, P[r[3]][j] - P[r[4]][j])
        d56 == Times(F, P[r[5]][j] - P[r[6]][j])
        d1i == Times(F, P[r[1]][j] - P[i][j])
        two == Times(F, P[r[1]][j] + P[r[2]][j] - P[r[3]][j] - P[r[4]][j])
    IN  CASE v \in {1, 6} -> G[j] + Times(F, P[r[2]][j] - P[r[3]][j])
          [] v \in {2, 7} -> P[r[1]][j] + Times(F, P[r[2]][j] - P[r[3]][j])
          [] v \in {3, 8} -> P[i][j] + Times(F, G[j] - P[i][j]) + d12
          [] v \in {4, 9} -> G[j] + two
          [] v \in {5, 10} -> P[r[5]][j] + two
          [] v \in {11, 12} -> G[j] + d12 + d34 + d56
          [] v \in {13, 14} -> P[r[7]][j] + d12 + d34 + d56
          [] v \in {15, 16} -> P[r[7]][j] + d1i + d34
          [] v \in {17, 18} -> P[r[7]][j] + d1i + Times(F, G[j] - P[r[4]][j])

\* number of components an exponential crossover assigns: c[l-1] is the draw
\* after the l-th assignment
ExpLen(c, Dc) == CHOOSE l \in 1..Dc : (l = Dc \/ ~c[l - 1]) /\ \A h \in 1..(l - 1) : c[h - 1]

\* the components the block assigns, from the start n and the draws c
Assigned(v, n, c, Dc) ==
    IF Exponential(v)
    THEN {(n + l) % Dc : l \in 0..(ExpLen(c, Dc) - 1)}
    ELSE {(n + l) % Dc : l \in {h \in 0..(Dc - 1) : c[h] \/ h + 1 = Dc}}

\* a repair that only looks at the upper bound
outside_upper(t) == t > UB

\* (tmp[i2] < lb[i2]) || (tmp[i2] > ub[i2])
outside(t) == t < LB \/ t > UB

\* the components the feasibility loop of lines 401-408 redraws
Infeasible(tmp, Dc) == {j \in 0..(Dc - 1) : outside(tmp[j])}

\* the feasibility loop with the draws d
Repaired(tmp, Dc, d) ==
    [j \in DOMAIN tmp |-> IF j \in Infeasible(tmp, Dc) THEN d[j] ELSE tmp[j]]

\* the sets of components the block can assign when the crossover
\* probability is CR, over the starts n and the draws of m_drng
AssignedSets(v, CR, Dc) ==
    {Assigned(v, n, c, Dc) : n \in 0..(Dc - 1), c \in [0..(Dc - 1) -> {u < CR : u \in m_drng}]}

\* the vectors the block of the variant can leave in tmp for the indices r
\* and the factor F, each with the crossover probabilities that lead to it
RawTrials(i, r, F, CRs) ==
    LET v == de.m_variant
        Dc == ContinuousPart(population.prob)
    IN  {[raw |-> [j \in DOMAIN ev.popold[i] |->
                      IF j \in A THEN Mutant(v, j, F, r, i) ELSE ev.popold[i][j]],
          CRs |-> {CR \in CRs : A \in AssignedSets(v, CR, Dc)}] :
            A \in UNION {AssignedSets(v, CR, Dc) : CR \in CRs}}

\* the trials of individual i: F, CR, the vector after the feasibility loop
\* and whether the loop has redrawn a component
Trials(i) ==
    LET Dc == ContinuousPart(population.prob)
    IN  UNION { UNION { UNION {
            {[F |-> F, CR |-> CR, tmp |-> Repaired(w.raw, Dc, d),
              fixed |-> Infeasible(w.raw, Dc) # {}] :
                CR \in w.CRs, d \in [Infeasible(w.raw, Dc) -> uniform_real(LB, UB)]}
            : w \in RawTrials(i, r, F, Adapted(de.m_cr, i, r, uniform_real(0, Tenths))) }
            : F \in Adapted(de.m_f, i, r, uniform_real(1, Tenths)) }
            : r \in IdxTuples(i, pop_size) }

\* std::transform(tmp, cur_x, minus): the velocity of an accepted trial
velocity(tmp, cur_x) == [k \in DOMAIN tmp |-> tmp[k] - cur_x[k]]

\* a selection that also takes a trial as good as the individual
improved_or_tie(newfitness, fit_i) == ~compare_fitness(fit_i, newfitness)

\* if ( pop.problem().compare_fitness(newfitness,fit[i]) )
improved_objective(newfitness, fit_i) == compare_fitness(newfitness, fit_i)

\* a selection that never resets the global best
new_low_never(newfitness, gbfit) == FALSE

\* if ( pop.problem().compare_fitness(newfitness,gbfit) )
new_low(newfitness, gbfit) == compare_fitness(newfitness, gbfit)

\* the selection of lines 410-434 for the trial t of individual i: the
\* locals (with the fitness of the trial), the algorithm and the population
\* it leaves
Selection(i, t) ==
    LET newfitness == objfun(t.tmp)
        improved == improved_objective(newfitness, ev.fit[i])
        tmp == velocity(t.tmp, population.ind[i].cur_x)
        best == improved /\ new_low(newfitness, ev.gbfit)
    IN  [ev |-> [ev EXCEPT !.i = i + 1,
                           !.fit[i] = IF improved THEN newfitness ELSE @,
                           !.popnew[i] = IF improved THEN t.tmp ELSE ev.popold[i],
                           !.gbfit = IF best THEN newfitness ELSE @,
                           !.gbX = IF best THEN tmp ELSE @,
                           !.fixed = t.fixed,
                           !.newfitness = newfitness],
         de |-> IF improved THEN [de EXCEPT !.m_cr[i] = t.CR, !.m_f[i] = t.F] ELSE de,
         population |-> IF improved
                        THEN set_v(set_x(population, i, t.tmp), i, tmp)
                        ELSE population]

\* the trial of individual i: sampling, adaptation, the block of the variant,
\* the feasibility loop and the selection (lines 147-434)
trial ==
    /\ ev.pc = "sweep"
    /\ ev.i < pop_size
    /\ \E s \in {Selection(ev.i, t) : t \in Trials(ev.i)} :
        /\ ev' = s.ev
        /\ de' = s.de
        /\ population' = s.population
    /\ UNCHANGED sadeFrame

\* an end of the sweep that copies the new generation instead of swapping
SweepEnd_copy(e) == [e EXCEPT !.gbIter = e.gbX, !.popold = e.popnew]

\* gbIter = gbX; std::swap(popold, popnew)
SweepEnd(e) == [e EXCEPT !.gbIter = e.gbX, !.popold = e.popnew, !.popnew = e.popold]

\* exit conditions looked at after every generation
exit_checked_always(gen) == TRUE

\* if (gen%40)
exit_checked(gen) == gen % 40 # 0

\* the two returns of the exit conditions (lines 452-466)
exit_met(dx, mah) == dx < de.m_xtol \/ mah < de.m_ftol

\* the end of a generation: gbIter, the swap, the exit conditions and the
\* loop condition (lines 436-470)
end_sweep ==
    /\ ev.pc = "sweep"
    /\ ev.i = pop_size
    /\ LET w == population.ind[get_worst_idx(population)]
           b == population.ind[get_best_idx(population)]
           dx == SumTo([k \in DOMAIN w.cur_x |-> Abs(w.cur_x[k] - b.cur_x[k])],
                       Cardinality(DOMAIN w.cur_x))
           mah == Abs(w.cur_f - b.cur_f)
           halted == exit_checked(ev.gen) /\ exit_met(dx, mah)
       IN  ev' = [SweepEnd(ev) EXCEPT
                    !.i = IF halted \/ ev.gen + 1 >= de.m_gen THEN @ ELSE 0,
                    !.gen = IF halted THEN @ ELSE @ + 1,
                    !.pc = IF halted \/ ev.gen + 1 >= de.m_gen THEN "returned" ELSE "sweep"]
    /\ UNCHANGED <<de, population>>
    /\ UNCHANGED sadeFrame

NextSADE == evolve_enter \/ trial \/ end_sweep

SpecSADE == InitSADE /\ [][NextSADE]_vars

\* ---- the loop over the generations --------------------------------------
\* for (int gen = 0; gen < m_gen; ++gen) { sweep; gbIter; swap; exit
\* conditions }: the sweep of a generation is one step here, and the
\* distances dx and mah it leaves between the worst and the best individual
\* are any of the values a tolerance can have.

Tolerances == {0, 1}

InitIters ==
    /\ \E gen \in 0..MaxGens, xtol \in Tolerances, ftol \in Tolerances :
        de = [m_gen |-> gen, m_variant |-> 2, m_variant_adptv |-> 0,
              m_restart |-> FALSE, m_xtol |-> xtol, m_ftol |-> ftol,
              m_f |-> <<>>, m_cr |-> <<>>]
    /\ population = <<>>
    /\ NotCalled(ev)
    /\ iters = [pc |-> "idle", gen |-> 0, done |-> 0, dx |-> 0, mah |-> 0, why |-> "none"]
    /\ IslandIdle
    /\ OwnIdle
    /\ SampleIdle
    /\ NotCalled(xo)
    /\ NotCalled(mig)

\* if (m_gen == 0) return (lines 105-107), and the first test of gen < m_gen
iters_enter ==
    /\ iters.pc = "idle"
    /\ iters' = IF de.m_gen = 0
                THEN [iters EXCEPT !.pc = "returned", !.why = "no generation"]
                ELSE [iters EXCEPT !.pc = "sweep"]
    /\ UNCHANGED de
    /\ UNCHANGED itersFrame

\* the loop through the deme, gbIter = gbX and the swap, then if (gen%40)
iters_sweep ==
    /\ iters.pc = "sweep"
    /\ iters' = [iters EXCEPT !.done = @ + 1,
                              !.pc = IF exit_checked(iters.gen) THEN "xtol" ELSE "incr"]
    /\ UNCHANGED de
    /\ UNCHANGED itersFrame

\* dx is computed; if (dx < m_xtol) return (lines 446-457)
iters_xtol ==
    /\ iters.pc = "xtol"
    /\ \E dx \in Tolerances :
        iters' = IF dx < de.m_xtol
                 THEN [iters EXCEPT !.dx = dx, !.pc = "returned", !.why = "xtol"]
                 ELSE [iters EXCEPT !.dx = dx, !.pc = "ftol"]
    /\ UNCHANGED de
    /\ UNCHANGED itersFrame

\* mah is computed; if (mah < m_ftol) return (lines 459-466)
iters_ftol ==
    /\ iters.pc = "ftol"
    /\ \E mah \in Tolerances :
        iters' = IF mah < de.m_ftol
                 THEN [iters EXCEPT !.mah = mah, !.pc = "returned", !.why = "ftol"]
                 ELSE [iters EXCEPT !.mah = mah, !.pc = "incr"]
    /\ UNCHANGED de
    /\ UNCHANGED itersFrame

\* ++gen and gen < m_gen (line 145); after the loop evolve returns (471-475)
iters_incr ==
    /\ iters.pc = "incr"
    /\ iters' = IF iters.gen + 1 < de.m_gen
                THEN [iters EXCEPT !.gen = @ + 1, !.pc = "sweep"]
                ELSE [iters EXCEPT !.gen = @ + 1, !.pc = "returned", !.why = "generations"]
    /\ UNCHANGED de
    /\ UNCHANGED itersFrame

NextIters == iters_enter \/ iters_sweep \/ iters_xtol \/ iters_ftol \/ iters_incr

SpecIters == InitIters /\ [][NextIters]_vars

\* ---- the construction of one trial vector -------------------------------
\* The blocks of lines 196-399: five if / else-if chains one after the other,
\* each block starting with tmp = popold[i] and the draw of n and running
\* either the do-while of the exponential crossover or the for of the
\* binomial one. A component of tmp is "old" (the value of popold[i]) or
\* "mutant" (assigned the expression of the block).

\* the variants tested by each chain: if (m_variant == 1) else if .. == 10;
\* if (== 11) else if (== 12); and so on
Chains == <<1..10, {11, 12}, {13, 14}, {15, 16}, {17, 18}>>

NChains == 5

InitCross ==
    /\ \E v \in MinVariant..MaxVariant, Dc \in 1..MaxDc, Di \in 0..1 :
        xo = [pc |-> "chain", chain |-> 1, v |-> v, Dc |-> Dc,
              tmp |-> [j \in 0..(Dc + Di - 1) |-> "unset"],
              ran |-> <<>>, n0 |-> 0, n |-> 0, L |-> 0,
              c |-> [h \in 0..(Dc - 1) |-> FALSE]]
    /\ IslandIdle
    /\ OwnIdle
    /\ SampleIdle
    /\ SadeIdle
    /\ NotCalled(iters)
    /\ NotCalled(mig)

\* the tests of a chain: the block of the variant is entered (tmp =
\* popold[i], n drawn in [0, Dc-1], L = 0) or the chain is passed
cross_chain ==
    /\ xo.pc = "chain"
    /\ IF xo.v \in Chains[xo.chain]
       THEN \E n \in 0..(xo.Dc - 1) :
              xo' = [xo EXCEPT !.pc = IF Exponential(xo.v) THEN "exp" ELSE "bin",
                               !.tmp = [j \in DOMAIN xo.tmp |-> "old"],
                               !.ran = Append(@, xo.v),
                               !.n0 = n, !.n = n, !.L = 0,
                               !.c = [h \in 0..(xo.Dc - 1) |-> FALSE]]
       ELSE xo' = [xo EXCEPT !.pc = IF xo.chain = NChains THEN "done" ELSE "chain",
                             !.chain = IF xo.chain = NChains THEN @ ELSE @ + 1]
    /\ UNCHANGED crossFrame

\* the point after a block: the next chain, or the feasibility loop
AfterBlock(x) ==
    [x EXCEPT !.pc = IF x.chain = NChains THEN "done" ELSE "chain",
              !.chain = IF x.chain = NChains THEN @ ELSE @ + 1]

\* do { tmp[n] = ..; n = (n+1)%Dc; ++L; } while ((m_drng() < CR) && (L < Dc))
cross_exp ==
    /\ xo.pc = "exp"
    /\ \E less \in BOOLEAN :
        LET x == [xo EXCEPT !.tmp[xo.n] = "mutant", !.n = (xo.n + 1) % xo.Dc,
                            !.L = @ + 1, !.c[xo.L] = less]
        IN  xo' = IF less /\ x.L < x.Dc THEN x ELSE AfterBlock(x)
    /\ UNCHANGED crossFrame

\* a binomial crossover that forces no component
bin_forced_never(L, Dc) == FALSE

\* L + 1 == Dc: change at least one parameter
bin_forced(L, Dc) == L + 1 = Dc

\* for (L = 0; L < Dc; ++L) { if ((m_drng() < CR) || L + 1 == Dc) tmp[n] = ..;
\* n = (n+1)%Dc; }
cross_bin ==
    /\ xo.pc = "bin"
    /\ \E less \in BOOLEAN :
        LET x == [xo EXCEPT !.tmp[xo.n] = IF less \/ bin_forced(xo.L, xo.Dc)
                                          THEN "mutant" ELSE @,
                            !.n = (xo.n + 1) % xo.Dc,
                            !.L = @ + 1, !.c[xo.L] = less]
        IN  xo' = IF x.L < x.Dc THEN x ELSE AfterBlock(x)
    /\ UNCHANGED crossFrame

NextCross == cross_chain \/ cross_exp \/ cross_bin

SpecCross == InitCross /\ [][NextCross]_vars

\* ---- migration ----------------------------------------------------------
\* island::accept_immigrants and island::get_emigrants. An individual is its
\* fitness; the champion is the best fitness the population has seen; the
\* dominance list of a slot is the set of the slots it is strictly better
\* than. The policies return any list their contract allows: placements
\* within the population and within the immigrants (the pagmo_assert of
\* line 457), emigrants taken from the population.

MigrFits == {1, 2}

\* the slots the individual of slot s dominates in the container c
Dominated(c, s) == {j \in DOMAIN c \ {s} : compare_fitness(c[s], c[j])}

Best(c) == CHOOSE f \in {c[s] : s \in DOMAIN c} : \A s \in DOMAIN c : ~compare_fitness(c[s], f)

NoMigrCall ==
    [op |-> "none", immigrants |-> <<>>, rep |-> <<>>, emigrants |-> <<>>,
     selected |-> <<>>, calls |-> <<>>, before |-> <<>>, champion_before |-> 0]

InitMigr ==
    /\ \E NP \in 1..MaxSlots : \E c \in [0..(NP - 1) -> MigrFits] :
        mig = [pc |-> "idle",
               m_container |-> c,
               champion |-> Best(c),
               m_dom_list |-> [s \in DOMAIN c |-> Dominated(c, s)],
               last |-> NoMigrCall]
    /\ IslandIdle
    /\ OwnIdle
    /\ SampleIdle
    /\ SadeIdle
    /\ NotCalled(iters)
    /\ NotCalled(xo)

\* population::update_champion(idx): the champion becomes the individual of
\* the slot when that one is better
update_champion(m, idx) ==
    [m EXCEPT !.champion = IF compare_fitness(m.m_container[idx], @)
                           THEN m.m_container[idx] ELSE @,
              !.last.calls = Append(@, <<"update_champion", idx>>)]

\* population::update_dom_list(idx): the list of the slot is recomputed, and
\* the slot is put into or taken out of the lists of the others
update_dom_list(m, idx) ==
    LET c == m.m_container
    IN  [m EXCEPT !.m_dom_list =
                    [i \in DOMAIN @ |->
                        IF i = idx THEN Dominated(c, idx)
                        ELSE IF compare_fitness(c[i], c[idx]) THEN @[i] \cup {idx}
                        ELSE @[i] \ {idx}],
                  !.last.calls = Append(@, <<"update_dom_list", idx>>)]

\* a loop that walks the placements from the end of the list
rep_it_backwards(rp, k) == rp[Len(rp) + 1 - k]

\* the placement the iterator rep_it is at in the k-th round of the loop
rep_it(rp, k) == rp[k]

\* the loop of lines 453-461 from its k-th round on
RECURSIVE ApplyPlacements(_, _, _, _)
ApplyPlacements(m, rp, immigrants, k) ==
    IF k > Len(rp) THEN m
    ELSE LET slot == rep_it(rp, k)[1]
             placed == [m EXCEPT !.m_container[slot] = immigrants[rep_it(rp, k)[2]]]
         IN  ApplyPlacements(update_dom_list(update_champion(placed, slot), slot),
                             rp, immigrants, k + 1)

\* void island::accept_immigrants(immigrants), called by the archipelago
\* before the algorithm evolves the population (once in a run of SpecMigr),
\* with any list of immigrants; m_r_policy->select(immigrants, m_pop) returns
\* any list of (slot, immigrant index)
accept_immigrants ==
    /\ mig.pc = "idle"
    /\ \E immigrants \in UNION {[0..(n - 1) -> MigrFits] : n \in 0..MaxImm} :
       \E rp \in UNION {[1..n -> (DOMAIN mig.m_container) \X (DOMAIN immigrants)] :
                           n \in 0..MaxImm} :
        mig' = ApplyPlacements(
                  [mig EXCEPT !.pc = "accepted",
                              !.last = [NoMigrCall EXCEPT
                                          !.op = "accept_immigrants",
                                          !.immigrants = immigrants,
                                          !.rep = rp,
                                          !.before = mig.m_container,
                                          !.champion_before = mig.champion]],
                  rp, immigrants, 1)
    /\ UNCHANGED migrFrame

\* std::vector<individual_type> island::get_emigrants() const;
\* m_s_policy->select(m_pop) returns the individuals of any set of slots
get_emigrants ==
    /\ mig.pc \in {"idle", "accepted"}
    /\ \E selected \in {[s \in S |-> mig.m_container[s]] : S \in SUBSET DOMAIN mig.m_container} :
        mig' = [mig EXCEPT !.last = [NoMigrCall EXCEPT
                                       !.op = "get_emigrants",
                                       !.selected = selected,
                                       !.emigrants = selected,
                                       !.before = mig.m_container,
                                       !.champion_before = mig.champion]]
    /\ UNCHANGED migrFrame

NextMigr == accept_immigrants \/ get_emigrants

SpecMigr == InitMigr /\ [][NextMigr]_vars

\* ---- properties ---------------------------------------------------------

PublicOps == JoiningOps \cup {"interrupt", "busy"}

\* the island was blocking when the last call dispatched its evolver
PreBlocking == lastCall.pre.pop.blocking \/ lastCall.pre.algo.blocking

\* the thread held by the island, if any, satisfies P
HeldThread(P(_)) == IF m_evo_thread = NoThread THEN FALSE ELSE P(workers[m_evo_thread])

HasRun(wk) == wk.joined /\ wk.rounds > 0
C2_NoLiveWorkerAfterAnyCall ==
    (callerPc = "idle" /\ lastCall.op \in PublicOps) => LiveWorkers = {}

\* C2 amended: no worker thread is live when join(), an accessor, set_algorithm
\* or an assignment from another island has returned, nor when evolve / evolve_t
\* has returned on a blocking island or with an error; evolve / evolve_t on a
\* non-blocking island return with the new worker live.
C2_NoLiveWorkerAfterDrainingCall ==
    /\ (callerPc = "idle" /\ lastCall.op \in JoiningOps \ {"evolve", "evolve_t"})
            => LiveWorkers = {}
    /\ (callerPc = "idle" /\ lastCall.op \in {"evolve", "evolve_t"}
            /\ (PreBlocking \/ lastCall.exc # "none"))
            => LiveWorkers = {}

HasFinishedRounds(wk) == wk.pc = "done" /\ wk.rounds > 0
C2_Witness ==
    /\ callerPc = "idle"
    /\ lastCall.op = "join"
    /\ HeldThread(HasFinishedRounds)

\* C3: at most one worker thread is live on the island at any time.
C3_AtMostOneLiveWorker ==
    Cardinality(LiveWorkers) <= 1

IsSecondLive(wk) == wk.afterIntr /\ wk.pc = "evolve"
C3_Witness ==
    /\ m_evo_thread = 2
    /\ HeldThread(IsSecondLive)

\* C4: a count-based evolver that leaves its loop normally (not interrupted, no
\* error) has called algorithm.evolve exactly n times, and a successful
\* evolve(n) on a non-blocking island returns in the step that creates the
\* worker thread, before that worker has taken a step.
C4_EvolveRunsNRounds ==
    /\ [](\A w \in Workers :
            (workers[w].kind = "int" /\ workers[w].outcome = "normal")
                => (workers[w].pc \in {"time", "done"} /\ workers[w].rounds = workers[w].n))
    /\ [][(callerPc = "join" /\ callerPc' = "idle" /\ lastCall'.op = "evolve"
              /\ lastCall'.exc = "none")
            => /\ m_evo_thread' = nworkers'
               /\ nworkers' = nworkers + 1
               /\ workers'[m_evo_thread'].kind = "int"
               /\ workers'[m_evo_thread'].n = lastCall'.n
               /\ workers'[m_evo_thread'].pc = "start"
               /\ workers'[m_evo_thread'].rounds = 0
               /\ ~workers'[m_evo_thread'].sync]_vars

C4_Witness ==
    \E w \in Workers :
        /\ workers[w].kind = "int"
        /\ ~workers[w].sync
        /\ workers[w].pc = "done"
        /\ workers[w].outcome = "normal"
        /\ workers[w].n = MaxN
        /\ workers[w].rounds = MaxN

\* C5: a time-based evolver that leaves its loop normally has called
\* algorithm.evolve at least once and the diff measured last is non-negative
\* and >= t; while it is in a later round, the diff measured at the end of the
\* round before was negative or < t.
InLaterRound(wk) ==
    \/ wk.pc \in {"pre", "evolve"} /\ wk.rounds >= 1
    \/ wk.pc \in {"post", "check", "tcheck"} /\ wk.rounds >= 2
C5_EvolveTStopsOnElapsed ==
    \A w \in Workers :
        /\ (workers[w].kind = "t" /\ workers[w].outcome = "normal")
                => /\ workers[w].rounds >= 1
                   /\ workers[w].lastDiff >= 0
                   /\ workers[w].lastDiff >= workers[w].n
        /\ (workers[w].kind = "t" /\ InLaterRound(workers[w]))
                => (workers[w].lastDiff < 0 \/ workers[w].lastDiff < workers[w].n)

C5_Witness ==
    \E w \in Workers :
        /\ workers[w].kind = "t"
        /\ workers[w].pc = "done"
        /\ workers[w].outcome = "normal"
        /\ workers[w].n = 0
        /\ workers[w].rounds = 2
        /\ workers[w].lastDiff = 0

\* C6: interrupt() called while a worker thread is live throws a runtime error
\* and leaves the interruption requested (unless the worker has already taken
\* it or is past its last check-point); a worker that reaches its check-point
\* with the interruption requested leaves the loop there, and an interrupted
\* worker runs no further round.
C6_InterruptStopsWorker ==
    /\ []((lastCall.op = "interrupt" /\ lastCall.live)
            => /\ lastCall.exc = "runtime_error"
               /\ m_evo_thread # NoThread
               /\ \/ workers[m_evo_thread].intr
                  \/ workers[m_evo_thread].outcome = "interrupted"
                  \/ workers[m_evo_thread].pc \in {"time", "done"})
    /\ [][\A w \in Workers :
            /\ (~workers[w].sync /\ workers[w].pc = "check" /\ workers[w].intr
                    /\ workers'[w] # workers[w])
                    => /\ workers'[w].pc = "time"
                       /\ workers'[w].outcome = "interrupted"
                       /\ workers'[w].rounds = workers[w].rounds
            /\ (workers[w].outcome = "interrupted" /\ workers'[w].outcome = "interrupted")
                    => workers'[w].rounds = workers[w].rounds]_vars

C6_Witness ==
    /\ lastCall.op = "interrupt"
    /\ lastCall.live
    /\ lastCall.exc = "runtime_error"
    /\ \E w \in Workers :
        /\ workers[w].kind = "int"
        /\ workers[w].pc = "done"
        /\ workers[w].outcome = "interrupted"
        /\ workers[w].rounds < workers[w].n

\* C7: interrupt() on an island holding a thread throws a runtime error; after
\* join() busy() is false; a worker launched after an interrupted one starts
\* without an interruption request of its own, is only ever interrupted by a
\* new interrupt() call, and when it ends normally has run exactly its rounds.
IsJoinable(wk) == ~wk.joined
C7_RestartAfterInterrupt ==
    /\ (lastCall.op = "interrupt" /\ m_evo_thread # NoThread) => lastCall.exc = "runtime_error"
    /\ lastCall.op = "join" => ~HeldThread(IsJoinable)
    /\ \A w \in Workers :
        workers[w].afterIntr
            => /\ workers[w].intr => workers[w].req
               /\ workers[w].outcome = "interrupted" => workers[w].req
               /\ (workers[w].kind = "int" /\ workers[w].outcome = "normal")
                       => workers[w].rounds = workers[w].n

C7_Witness ==
    /\ lastCall.op = "join"
    /\ \E w \in Workers :
        /\ workers[w].afterIntr
        /\ workers[w].kind = "int"
        /\ workers[w].pc = "done"
        /\ workers[w].joined
        /\ workers[w].outcome = "normal"
        /\ workers[w].n >= 1
        /\ workers[w].rounds = workers[w].n

C9_EvolveZeroNoOp ==
    (lastCall.op = "evolve" /\ lastCall.n = 0 /\ lastCall.exc = "none")
        => /\ ~modified.pop
           /\ ~modified.algo
           /\ m_evo_time = lastCall.pre.time
           /\ m_evo_thread = lastCall.pre.thread

\* C9 amended: after evolve(0) the population and the algorithm have not been
\* modified since it was dispatched, the evolution time has not decreased, and
\* on a blocking island the thread pointer is unchanged.
C9_EvolveZeroKeepsPopulation ==
    (lastCall.op = "evolve" /\ lastCall.n = 0 /\ lastCall.exc = "none")
        => /\ ~modified.pop
           /\ ~modified.algo
           /\ m_evo_time >= lastCall.pre.time
           /\ PreBlocking => m_evo_thread = lastCall.pre.thread

IsDone(wk) == wk.pc = "done"
C9_Witness ==
    /\ lastCall.op = "evolve"
    /\ lastCall.n = 0
    /\ lastCall.exc = "none"
    /\ m_archi
    /\ HeldThread(IsDone)
    /\ m_evo_thread # lastCall.pre.thread

\* C10 as stated: no step of the island lowers evo_time.
C10_EvoTimeNeverDecreases ==
    [][m_evo_time' >= m_evo_time]_vars

\* C10 amended: no step other than the assignment from another island lowers
\* evo_time.
C10_EvoTimeMonotoneButAssign ==
    [][\/ m_evo_time' >= m_evo_time
       \/ (callerPc = "join" /\ callerPc' = "idle" /\ lastCall'.op = "assign")]_vars

C10_Witness ==
    /\ m_evo_time > MaxIslTime
    /\ lastCall.op = "get_evolution_time"

\* C11: on a blocking island evolve / evolve_t run the evolver on the calling
\* thread: the evolver is synchronous iff the island is blocking when it is
\* dispatched, the thread pointer is left as it was, a synchronous evolver
\* never calls the barrier, never polls the interruption check-point and is
\* never interrupted, and when the call returns without an error the evolver
\* has left its loop normally with all its rounds run.
C11_BlockingRunsSynchronously ==
    /\ [](\A w \in Workers :
            workers[w].sync
                => /\ workers[w].pc # "sync"
                   /\ workers[w].syncs = 0
                   /\ workers[w].polls = 0
                   /\ workers[w].outcome # "interrupted"
                   /\ m_evo_thread # w)
    /\ []((lastCall.op \in {"evolve", "evolve_t"} /\ PreBlocking)
            => m_evo_thread = lastCall.pre.thread)
    /\ [][\A w \in Workers :
            (workers[w].pc = "unborn" /\ workers'[w].pc = "start")
                => /\ workers'[w].sync <=> (m_pop.blocking \/ m_algo.blocking)
                   /\ workers'[w].sync => (callerPc' = "run" /\ m_evo_thread' = m_evo_thread)]_vars
    /\ [][(callerPc = "run" /\ callerPc' = "idle" /\ lastCall'.exc = "none")
            => /\ workers[nworkers].sync
               /\ workers[nworkers].pc = "done"
               /\ workers[nworkers].outcome = "normal"
               /\ workers[nworkers].kind = "int" => workers[nworkers].rounds = workers[nworkers].n
               /\ workers[nworkers].kind = "t"
                    => /\ workers[nworkers].rounds >= 1
                       /\ workers[nworkers].lastDiff >= workers[nworkers].n]_vars

\* evolve(MaxN) has returned on a blocking island in an archipelago that
\* holds the thread of an earlier, non-blocking evolution
C11_Witness ==
    /\ lastCall.op = "evolve"
    /\ lastCall.n = MaxN
    /\ lastCall.exc = "none"
    /\ PreBlocking
    /\ m_archi
    /\ m_evo_thread # NoThread
    /\ m_evo_time > 0

\* C12: an error raised by a hook or by algorithm.evolve in a worker thread is
\* caught in the worker, which goes on to its time computation and ends
\* without another call to a hook or to the algorithm; no join() and no
\* evolve / evolve_t on a non-blocking island returns that error, and a join()
\* that returns finds the failed worker terminated and joined. On a blocking
\* island the error leaves the evolver at once and evolve / evolve_t return it
\* to their caller.
HasFailed(wk) == wk.outcome = "error"
C12_WorkerErrorContained ==
    /\ [](lastCall.exc = "error" => (lastCall.op \in {"evolve", "evolve_t"} /\ PreBlocking))
    /\ []((lastCall.op = "join" /\ HeldThread(HasFailed))
            => /\ lastCall.exc = "none"
               /\ LiveWorkers = {}
               /\ workers[m_evo_thread].pc = "done"
               /\ workers[m_evo_thread].joined)
    /\ [][\A w \in Workers :
            /\ (workers[w].outcome # "error" /\ workers'[w].outcome = "error")
                    => /\ workers[w].pc \in {"pre", "evolve", "post"}
                       /\ workers'[w].pc = IF workers[w].sync THEN "done" ELSE "time"
            /\ (workers[w].outcome = "error" /\ workers'[w].outcome = "error")
                    => /\ workers'[w].rounds = workers[w].rounds
                       /\ workers'[w].pres = workers[w].pres
                       /\ workers'[w].posts = workers[w].posts
                       /\ workers'[w].pc \in {"time", "done"}]_vars
    /\ [][(callerPc = "run" /\ callerPc' = "idle")
            => (lastCall'.exc = "error" <=> workers[nworkers].outcome = "error")]_vars

\* join() has returned on an island whose worker failed in its second round
C12_Witness ==
    /\ lastCall.op = "join"
    /\ HeldThread(HasFailed)
    /\ workers[m_evo_thread].kind = "int"
    /\ workers[m_evo_thread].n > workers[m_evo_thread].rounds
    /\ workers[m_evo_thread].rounds = 1
    /\ workers[m_evo_thread].pres = 2

\* the calls a hook has received after the given number of rounds: one per
\* round in an archipelago, none without
Hooked(rounds) == IF m_archi THEN rounds ELSE 0

\* C18: the barrier is called at most once, only by a worker thread in an
\* archipelago, and has been called (also with a round budget of 0) before
\* such a worker enters its loop; in every round pre_evolution comes before
\* algorithm.evolve, post_evolution after it and the check-point last, and
\* the hooks are called once per round in an archipelago and never without.
C18_WorkerCallOrder ==
    \A w \in Workers :
        workers[w].kind # "none" =>
            /\ workers[w].syncs <= 1
            /\ workers[w].syncs = 1 => (m_archi /\ ~workers[w].sync)
            /\ workers[w].pc \in {"start", "sync"}
                    => /\ workers[w].syncs = 0
                       /\ workers[w].pres = 0 /\ workers[w].rounds = 0 /\ workers[w].posts = 0
            /\ workers[w].pc \notin {"start", "sync"}
                    => workers[w].syncs = IF m_archi /\ ~workers[w].sync THEN 1 ELSE 0
            /\ workers[w].pc \in {"loop", "pre", "tcheck"}
                    => /\ workers[w].pres = Hooked(workers[w].rounds)
                       /\ workers[w].posts = Hooked(workers[w].rounds)
                       /\ ~workers[w].sync => workers[w].polls = workers[w].rounds
            /\ workers[w].pc = "pre" => m_archi
            /\ workers[w].pc = "evolve"
                    => /\ workers[w].pres = Hooked(workers[w].rounds + 1)
                       /\ workers[w].posts = Hooked(workers[w].rounds)
                       /\ ~workers[w].sync => workers[w].polls = workers[w].rounds
            /\ workers[w].pc = "post"
                    => /\ m_archi
                       /\ workers[w].pres = workers[w].rounds
                       /\ workers[w].posts = workers[w].rounds - 1
                       /\ ~workers[w].sync => workers[w].polls = workers[w].rounds - 1
            /\ workers[w].pc = "check"
                    => /\ workers[w].pres = Hooked(workers[w].rounds)
                       /\ workers[w].posts = Hooked(workers[w].rounds)
                       /\ ~workers[w].sync => workers[w].polls = workers[w].rounds - 1

\* a worker thread in an archipelago is at the check-point of its second round
C18_Witness ==
    \E w \in Workers :
        /\ workers[w].pc = "check"
        /\ ~workers[w].sync
        /\ workers[w].syncs = 1
        /\ workers[w].pres = 2
        /\ workers[w].rounds = 2
        /\ workers[w].posts = 2
        /\ workers[w].polls = 1

\* C19: a worker is interrupted only at the check-point that ends a round,
\* after the pre_evolution, algorithm.evolve and post_evolution calls of that
\* round; an interrupted worker has made as many pre_evolution and
\* post_evolution calls as algorithm.evolve calls (in an archipelago; none
\* without), makes no further call, and still goes through the time
\* computation, which adds the non-negative measured time to evo_time.
C19_InterruptOnlyBetweenRounds ==
    /\ [](\A w \in Workers :
            workers[w].outcome = "interrupted"
                => /\ workers[w].pc \in {"time", "done"}
                   /\ workers[w].rounds >= 1
                   /\ workers[w].pres = Hooked(workers[w].rounds)
                   /\ workers[w].posts = Hooked(workers[w].rounds))
    /\ [][\A w \in Workers :
            /\ (workers[w].outcome # "interrupted" /\ workers'[w].outcome = "interrupted")
                    => /\ workers[w].pc = "check"
                       /\ workers[w].intr
                       /\ workers'[w].pc = "time"
                       /\ workers'[w].rounds = workers[w].rounds
            /\ (workers[w].outcome = "interrupted" /\ workers[w].pc = "time"
                    /\ workers'[w].pc # "time")
                    => /\ workers'[w].pc = "done"
                       /\ m_evo_time' \in {m_evo_time + d : d \in {0} \cup {t \in TimeDiffs : t > 0}}]_vars

\* the first worker of an island in an archipelago was interrupted after its
\* first round and its elapsed time has been added
IsInterrupted(wk) == wk.outcome = "interrupted" /\ wk.pc = "done"
C19_Witness ==
    /\ nworkers = 1
    /\ HeldThread(IsInterrupted)
    /\ m_archi
    /\ workers[1].pres = 1
    /\ workers[1].rounds = 1
    /\ workers[1].posts = 1
    /\ workers[1].n = MaxN
    /\ m_evo_time > 0
    /\ lastCall.op = "join"

\* C15: the island constructor throws a value error exactly for a migration
\* probability below 0 or above 1 (0 and 1 are accepted) and then leaves no
\* island; a constructed island has evolution time 0, a null archipelago
\* pointer, no thread, and the probability it was given.
C15_IslandCtorChecksProbability ==
    last.op = "island" =>
        /\ last.exc = "value_error" <=> (last.p < 0 \/ last.p > Unit)
        /\ last.exc \in {"none", "value_error"}
        /\ last.exc = "value_error" => island = NoIsland
        /\ last.exc = "none"
                => /\ island.state = "constructed"
                   /\ island.m_evo_time = 0
                   /\ ~island.m_archi
                   /\ island.m_evo_thread = NoThread
                   /\ island.m_migr_prob = last.p

\* an island was constructed with migration probability 1
C15_Witness ==
    /\ last.op = "island"
    /\ last.p = Unit
    /\ last.exc = "none"
    /\ island.state = "constructed"

IslandContent ==
    IF island.state = "none" THEN <<>>
    ELSE [algo |-> heap[island.m_algo].val, pop |-> heap[island.m_pop].val,
          prob |-> heap[heap[island.m_pop].prob].val,
          s_policy |-> heap[island.m_s_policy].val, r_policy |-> heap[island.m_r_policy].val]

\* the island member an accessor reads
Member(op) ==
    IF op = "get_algorithm" THEN island.m_algo
    ELSE IF op = "get_problem" THEN heap[island.m_pop].prob
    ELSE IF op = "get_s_policy" THEN island.m_s_policy
    ELSE IF op = "get_r_policy" THEN island.m_r_policy
    ELSE island.m_pop

Getters == {"get_algorithm", "get_problem", "get_s_policy", "get_r_policy", "get_population"}

\* C17: the user never holds an object the island owns (nor a population
\* that shares its problem with the island's); an accessor returns a new
\* object with the content of the island's; set_algorithm stores a new
\* object with the content of its argument; and no change the user makes to
\* an object it holds changes the content of the island's objects.
C17_AccessorsReturnCopies ==
    /\ [](held \cap IslandRefs = {})
    /\ [](\A r \in held : heap[r].kind = "pop" => heap[r].prob \notin IslandRefs)
    /\ [][last'.op = "mutate" => IslandContent' = IslandContent]_vars
    /\ [][(last'.op \in Getters /\ heap' # heap)
            => /\ last'.ref \notin held
               /\ heap[last'.ref].kind = "free"
               /\ heap'[last'.ref].kind = heap[Member(last'.op)].kind
               /\ heap'[last'.ref].val = heap[Member(last'.op)].val
               /\ IslandContent' = IslandContent]_vars
    /\ [][(last'.op = "set_algorithm" /\ heap' # heap)
            => /\ island'.m_algo \notin held'
               /\ heap'[island'.m_algo].val = heap[last'.ref].val
               /\ heap'[last'.ref] = heap[last'.ref]]_vars

\* the user has changed the algorithm get_algorithm returned, which now
\* differs from the island's
C17_Witness ==
    /\ last.op = "mutate"
    /\ heap[last.ref].kind = "algo"
    /\ heap[last.ref].src = "accessor"
    /\ island.state = "constructed"
    /\ heap[last.ref].val # heap[island.m_algo].val

\* C20: the index sampling of every individual i of a population of at least
\* 8 ends, and when it has ended r1..r7 are indices of the population,
\* pairwise distinct and all different from i (the indices of the loops
\* already left are so at any time).
C20_SevenDistinctIndices ==
    /\ <>(smp.k = NIdx + 1)
    /\ [](\A j \in 1..(smp.k - 1) :
            /\ smp.r[j] \in 0..(smp.NP - 1)
            /\ smp.r[j] # smp.i
            /\ \A h \in 1..(smp.k - 1) : h # j => smp.r[h] # smp.r[j])
    /\ [](smp.NP >= 8)

\* the sampling for the last individual of a population of 8 has ended
C20_Witness ==
    /\ smp.k = 8
    /\ smp.NP = 8
    /\ smp.i = 7
    /\ Cardinality({smp.r[j] : j \in 1..7}) = 7
    /\ smp.r[7] = 0

\* C13: a call of evolve throws, before anything else, exactly when Dc = 0 or
\* C /= 0 or F /= 1 or N < 8, whatever the number of generations (0 included);
\* N = 7 throws and N = 8 with a suitable problem does not; when it throws,
\* the population and the F and CR vectors are as before the call.
C13_EvolveRejectsUnsuitable ==
    [][ev.pc = "idle" /\ ev'.pc # "idle" =>
        LET N == Cardinality(DOMAIN population.ind)
            unsuitable == \/ population.prob.D - population.prob.Di = 0
                          \/ population.prob.C # 0
                          \/ population.prob.Fd # 1
        IN  /\ ev'.pc = "thrown" <=> (unsuitable \/ N < 8)
            /\ N = 7 => ev'.pc = "thrown"
            /\ N = 8 /\ ~unsuitable => ev'.pc \in {"returned", "sweep"}
            /\ ev'.pc = "thrown" =>
                    /\ population' = population
                    /\ de'.m_f = de.m_f
                    /\ de'.m_cr = de.m_cr]_vars

\* an algorithm of no generation that has F and CR vectors from an earlier
\* call has thrown for a population of 7 on a suitable problem
C13_Witness ==
    /\ ev.pc = "thrown"
    /\ de.m_gen = 0
    /\ Cardinality(DOMAIN population.ind) = 7
    /\ Cardinality(DOMAIN de.m_f) = 8
    /\ population.prob = [D |-> 3, Di |-> 1, C |-> 0, Fd |-> 1]

\* C14: before, during and after a call of evolve every component of every
\* cur_x lies within [lb, ub], for every variant and both adaptation schemes;
\* so does every trial that the selection has written to popnew.
C14_PopulationStaysInBounds ==
    ev.pc \in {"idle", "sweep", "returned", "thrown"} =>
        /\ \A i \in DOMAIN population.ind : \A j \in DOMAIN population.ind[i].cur_x :
                LB <= population.ind[i].cur_x[j] /\ population.ind[i].cur_x[j] <= UB
        /\ ev.pc = "sweep" =>
                \A i \in DOMAIN ev.popnew : \A j \in DOMAIN ev.popnew[i] :
                    LB <= ev.popnew[i][j] /\ ev.popnew[i][j] <= UB

\* the trial of the first individual left its box, was redrawn, was accepted
\* and is now its cur_x (variant 18, scheme 0)
C14_Witness ==
    /\ ev.pc = "sweep"
    /\ ev.i = 1
    /\ ev.fixed
    /\ ev.popnew[0] # ev.popold[0]
    /\ population.ind[0].cur_x = ev.popnew[0]
    /\ de.m_variant = 18
    /\ de.m_variant_adptv = 0

\* the values the adaptation of lines 182-191 can give individual i from the
\* vector a
AdaptedAny(a, i, fresh) == UNION {Adapted(a, i, r, fresh) : r \in IdxTuples(i, pop_size)}

\* C21: the trial of individual i is taken iff its fitness newf is strictly
\* better than fit[i]. If it is taken, fit[i] = newf, popnew[i] is the trial
\* (a vector of fitness newf), F[i] and CR[i] are adapted values and the
\* population holds the trial as cur_x[i] with the move as cur_v[i]; if not,
\* popnew[i] = popold[i] and fit[i], F[i], CR[i] and the individual are as
\* before. No other slot changes and no fit[k] becomes worse.
C21_SelectionIffStrictlyBetter ==
    [][ev.pc = "sweep" /\ ev'.pc = "sweep" /\ ev'.i = ev.i + 1 =>
        LET i == ev.i
            newf == ev'.newfitness
        IN  /\ IF newf < ev.fit[i]
               THEN /\ ev'.fit[i] = newf
                    /\ objfun(ev'.popnew[i]) = newf
                    /\ de'.m_f[i] \in AdaptedAny(de.m_f, i, uniform_real(1, Tenths))
                    /\ de'.m_cr[i] \in AdaptedAny(de.m_cr, i, uniform_real(0, Tenths))
                    /\ population'.ind[i].cur_x = ev'.popnew[i]
                    /\ population'.ind[i].cur_f = newf
                    /\ \A k \in DOMAIN ev'.popnew[i] :
                           population'.ind[i].cur_v[k] =
                               ev'.popnew[i][k] - population.ind[i].cur_x[k]
               ELSE /\ ev'.popnew[i] = ev.popold[i]
                    /\ ev'.fit[i] = ev.fit[i]
                    /\ de'.m_f[i] = de.m_f[i]
                    /\ de'.m_cr[i] = de.m_cr[i]
                    /\ population'.ind[i] = population.ind[i]
            /\ \A k \in DOMAIN ev.fit :
                    /\ ~(ev.fit[k] < ev'.fit[k])
                    /\ k # i => /\ ev'.fit[k] = ev.fit[k]
                                /\ ev'.popnew[k] = ev.popnew[k]
                                /\ de'.m_f[k] = de.m_f[k]
                                /\ de'.m_cr[k] = de.m_cr[k]
                                /\ population'.ind[k] = population.ind[k]]_vars

\* in one sweep the trial of the first individual was taken and the trial of
\* the second, as good as the individual, was not
C21_Witness ==
    /\ ev.pc = "sweep"
    /\ ev.i = 2
    /\ ev.popnew[0] # ev.popold[0]
    /\ population.ind[0].cur_x = ev.popnew[0]
    /\ ev.newfitness = ev.fit[1]
    /\ ev.popnew[1] = ev.popold[1]

\* C23: a trial leaves popold and gbIter as they are, also after the trial of
\* an earlier individual of the sweep was taken; the end of the sweep sets
\* gbIter to gbX and exchanges popold and popnew.
C23_DonorsFixedDuringSweep ==
    [][ev.pc = "sweep" /\ ev' # ev =>
        IF ev.i < Cardinality(DOMAIN ev.popold)
        THEN /\ ev'.popold = ev.popold
             /\ ev'.gbIter = ev.gbIter
             /\ ev'.gen = ev.gen
        ELSE /\ ev'.gbIter = ev.gbX
             /\ ev'.popold = ev.popnew
             /\ ev'.popnew = ev.popold]_vars

\* the first individual was improved in the sweep, the trials of all the
\* others followed, and the sweep has ended with the exchange
C23_Witness ==
    /\ ev.pc = "returned"
    /\ "popold" \in DOMAIN ev
    /\ ev.popold[0] # ev.popnew[0]
    /\ ev.popold[0] = population.ind[0].cur_x
    /\ ev.gbIter = ev.gbX

\* C26: a call of evolve with G > 0 that passes the checks draws new F and CR
\* vectors of length N iff the length of one of them differs from N or the
\* restart flag is set (also when the lengths are N); otherwise the call
\* starts from the vectors the call before left. A call with G = 0 leaves
\* them alone. (The draws of the model differ from the vectors a call has
\* left, so that drawing anew is seen.)
C26_ReinitialiseOnSizeOrRestart ==
    [][ev.pc = "idle" /\ ev'.pc \in {"sweep", "returned"} =>
        LET N == Cardinality(DOMAIN population.ind)
            anew == \/ Cardinality(DOMAIN de.m_f) # N
                    \/ Cardinality(DOMAIN de.m_cr) # N
                    \/ de.m_restart
            Fs == IF de.m_variant_adptv = 0 THEN uniform_real(1, Tenths)
                  ELSE normal_distribution(5, 15)
            CRs == IF de.m_variant_adptv = 0 THEN uniform_real(0, Tenths)
                   ELSE normal_distribution(5, 15)
        IN  IF de.m_gen > 0 /\ anew
            THEN /\ de'.m_f \in [0..(N - 1) -> Fs]
                 /\ de'.m_cr \in [0..(N - 1) -> CRs]
                 /\ de'.m_f # de.m_f
                 /\ de'.m_cr # de.m_cr
            ELSE de' = de]_vars

\* an algorithm with the restart flag, whose vectors had the length of the
\* population, has drawn them anew (the first F was 0.1 and is 0.9)
C26_Witness ==
    /\ ev.pc = "sweep"
    /\ ev.gen = 0
    /\ ev.i = 0
    /\ de.m_restart
    /\ de.m_variant_adptv = 0
    /\ de.m_f[0] = 9
    /\ Cardinality(DOMAIN de.m_f) = 8

\* C27: with the adaptation scheme 0 every stored F[i] lies in [0.1, 1] and
\* every stored CR[i] in [0, 1], after the initialisation and after every
\* trial; a trial changes F[i] or CR[i] only when it is taken.
C27_Scheme0KeepsRanges ==
    /\ [](de # <<>> /\ de.m_variant_adptv = 0 =>
            /\ \A i \in DOMAIN de.m_f : 1 <= de.m_f[i] /\ de.m_f[i] <= Tenths
            /\ \A i \in DOMAIN de.m_cr : 0 <= de.m_cr[i] /\ de.m_cr[i] <= Tenths)
    /\ [][ev.pc = "sweep" /\ ev'.pc = "sweep" /\ ev'.i = ev.i + 1 /\ de' # de =>
            ev'.fit[ev.i] < ev.fit[ev.i]]_vars

\* scheme 0: the trial of the first individual was taken with a fresh F and
\* a fresh CR, which replaced the 0.9 the initialisation had drawn for both
C27_Witness ==
    /\ ev.pc = "returned"
    /\ de.m_variant_adptv = 0
    /\ Cardinality(DOMAIN de.m_f) = 8
    /\ de.m_f[0] = 1
    /\ de.m_cr[0] = 0
    /\ de.m_f[4] = 9
    /\ de.m_cr[4] = 9

\* C22: a trial that is taken and is also better than the global best makes
\* gbfit its fitness and gbX the trial vector, the new position of the
\* individual; so at the end of every sweep gbIter is a decision vector
\* whose fitness is gbfit.
C22_GlobalBestIsTheTrial ==
    /\ [][ev.pc = "sweep" /\ ev'.pc = "sweep" /\ ev'.i = ev.i + 1
              /\ ev'.newfitness < ev.fit[ev.i] /\ ev'.newfitness < ev.gbfit =>
            /\ ev'.gbfit = ev'.newfitness
            /\ ev'.gbX = ev'.popnew[ev.i]
            /\ ev'.gbX = population'.ind[ev.i].cur_x]_vars
    /\ [](ev.pc = "returned" /\ "gbIter" \in DOMAIN ev => objfun(ev.gbIter) = ev.gbfit)

CrossAssigned == {j \in DOMAIN xo.tmp : xo.tmp[j] = "mutant"}

\* C25: for every variant exactly one block runs per trial, the block of
\* the variant; it assigns the mutant expression to at least one and at most
\* Dc components of the copy of popold[i]: the exponential crossover to a
\* cyclic run of consecutive positions starting at n, the binomial one to
\* the last position of its sweep among others; components of index >= Dc
\* are never changed.
C25_OneBlockAssignsOneToDc ==
    /\ [](xo.pc # "none" => Len(xo.ran) <= 1)
    /\ [](xo.pc \in {"exp", "bin"} => xo.ran = <<xo.v>>)
    /\ [](xo.pc # "none" => \A j \in DOMAIN xo.tmp : j >= xo.Dc => xo.tmp[j] # "mutant")
    /\ [](xo.pc = "done" =>
            /\ xo.ran = <<xo.v>>
            /\ Cardinality(CrossAssigned) \in 1..xo.Dc
            /\ \A j \in DOMAIN xo.tmp : xo.tmp[j] \in {"old", "mutant"}
            /\ Exponential(xo.v) =>
                    /\ xo.L \in 1..xo.Dc
                    /\ CrossAssigned = {(xo.n0 + l) % xo.Dc : l \in 0..(xo.L - 1)}
            /\ ~Exponential(xo.v) =>
                    /\ xo.L = xo.Dc
                    /\ (xo.n0 + xo.Dc - 1) % xo.Dc \in CrossAssigned
            /\ CrossAssigned = Assigned(xo.v, xo.n0, xo.c, xo.Dc))

\* a binomial trial of a variant of the last chain that changed only the last
\* position of its sweep, on a problem with an integer component
C25_Witness ==
    /\ xo.pc = "done"
    /\ xo.v = 18
    /\ xo.Dc = MaxDc
    /\ xo.n0 = 1
    /\ CrossAssigned = {0}
    /\ Cardinality(DOMAIN xo.tmp) = MaxDc + 1

\* the rounds of the loop of the last accept_immigrants that name the slot s
MigrNamed(s) == {k \in 1..Len(mig.last.rep) : mig.last.rep[k][1] = s}

MigrLast(K) == CHOOSE k \in K : \A h \in K : h <= k

\* the best of the champion before the call and of the immigrants placed
MigrBestPlaced ==
    Best([k \in 0..Len(mig.last.rep) |->
            IF k = 0 THEN mig.last.champion_before
            ELSE mig.last.immigrants[mig.last.rep[k][2]]])

\* C28: accept_immigrants applies the placements of the replacement policy
\* in list order: each overwrites its slot with its immigrant and then
\* refreshes the champion and the dominance list for that slot; a slot no
\* placement names is unchanged, the last placement on a slot wins, and the
\* size of the population does not change. get_emigrants returns what the
\* selection policy returns and leaves the population as it was.
C28_PlacementsAppliedInOrder ==
    /\ [](mig.pc # "none" /\ mig.last.op = "accept_immigrants" =>
            /\ DOMAIN mig.m_container = DOMAIN mig.last.before
            /\ \A s \in DOMAIN mig.m_container :
                   mig.m_container[s] =
                       IF MigrNamed(s) = {} THEN mig.last.before[s]
                       ELSE mig.last.immigrants[mig.last.rep[MigrLast(MigrNamed(s))][2]]
            /\ mig.last.calls =
                   [k \in 1..(2 * Len(mig.last.rep)) |->
                       <<IF k % 2 = 1 THEN "update_champion" ELSE "update_dom_list",
                         mig.last.rep[(k + 1) \div 2][1]>>]
            /\ mig.champion = MigrBestPlaced
            /\ \A s \in DOMAIN mig.m_container :
                   mig.m_dom_list[s] = Dominated(mig.m_container, s))
    /\ [](mig.pc # "none" /\ mig.last.op = "get_emigrants" =>
            /\ mig.m_container = mig.last.before
            /\ mig.champion = mig.last.champion_before
            /\ mig.last.emigrants = mig.last.selected
            /\ mig.last.calls = <<>>)
    /\ [][mig.pc # "none" /\ mig'.last.op = "get_emigrants" =>
            /\ mig'.m_container = mig.m_container
            /\ mig'.champion = mig.champion
            /\ mig'.m_dom_list = mig.m_dom_list]_vars

\* two placements on the same slot, the first of a better immigrant than the
\* second: the slot holds the second, the champion is the first
C28_Witness ==
    /\ mig.pc = "accepted"
    /\ mig.last.op = "accept_immigrants"
    /\ Len(mig.last.rep) = 2
    /\ mig.last.rep[1] = <<0, 0>>
    /\ mig.last.rep[2] = <<0, 1>>
    /\ mig.last.immigrants[0] = 1
    /\ mig.last.immigrants[1] = 2
    /\ mig.last.before[0] = 2
    /\ mig.last.champion_before = 2
    /\ mig.m_container[0] = 2
    /\ mig.champion = 1
    /\ Cardinality(DOMAIN mig.m_container) = 2

\* C29 as stated: interrupt() raises exactly when the island holds a worker
\* handle, and once a non-blocking island has launched a worker the handle
\* stays, so that every later interrupt() raises.
C29_HandleOnceHeldAlwaysRaises ==
    /\ [](lastCall.op = "interrupt" =>
            (lastCall.exc = "runtime_error" <=> m_evo_thread # NoThread))
    /\ [][m_evo_thread # NoThread => m_evo_thread' # NoThread]_vars

\* C29: interrupt() raises the runtime error exactly when the island holds
\* a worker handle, whether or not that worker still runs or has been
\* joined. The handle is set only by an evolve or evolve_t that launches a
\* thread on an island that is not blocking, and is dropped only by an
\* assignment from another island; an interrupt() that does not raise
\* changes nothing.
C29_InterruptRaisesIffHandleHeld ==
    /\ [](lastCall.op = "interrupt" =>
            (lastCall.exc = "runtime_error" <=> m_evo_thread # NoThread))
    /\ [][m_evo_thread # NoThread /\ m_evo_thread' = NoThread =>
            lastCall'.op = "assign"]_vars
    /\ [][m_evo_thread' # m_evo_thread /\ m_evo_thread' # NoThread =>
            /\ ~is_blocking
            /\ lastCall'.op \in {"evolve", "evolve_t"}
            /\ lastCall'.exc = "none"
            /\ ~workers'[m_evo_thread'].sync
            /\ workers[m_evo_thread'].pc = "unborn"]_vars
    /\ [][lastCall' # lastCall /\ lastCall'.op = "interrupt" =>
            /\ m_evo_thread' = m_evo_thread
            /\ lastCall'.exc = "none" =>
                   UNCHANGED <<m_pop, m_algo, modified, m_archi, m_evo_time,
                               workers, nworkers, callerPc, cur>>
            /\ lastCall'.exc = "runtime_error" =>
                   /\ UNCHANGED <<m_pop, m_algo, modified, m_archi, m_evo_time,
                                  nworkers, callerPc, cur>>
                   /\ \A w \in Workers : w # m_evo_thread => workers'[w] = workers[w]]_vars

\* an interrupt() that raised on a handle whose worker had finished and had
\* been joined
C29_Witness ==
    /\ lastCall.op = "interrupt"
    /\ lastCall.exc = "runtime_error"
    /\ m_evo_thread # NoThread
    /\ workers[m_evo_thread].pc = "done"
    /\ workers[m_evo_thread].joined
    /\ ~workers[m_evo_thread].req

\* C30: the hooks, which call accept_immigrants and get_emigrants from
\* inside the evolver, never wait for the thread of the island: an evolver
\* that has reached pre_evolution or post_evolution can always go on, every
\* evolver that was started terminates, and the join() of a caller
\* eventually finds the thread terminated.
C30_HooksNeverWaitForWorker ==
    /\ [](\A w \in Workers :
            workers[w].pc \in {"pre", "post"} => ENABLED WorkerStep(w))
    /\ \A w \in Workers :
            workers[w].pc \in {"pre", "post"} ~> workers[w].pc = "done"
    /\ (callerPc = "join") ~> join_returns

\* the caller waits in join() for an evolver of two rounds that is in its
\* second post_evolution
C30_Witness ==
    /\ callerPc = "join"
    /\ m_evo_thread # NoThread
    /\ workers[m_evo_thread].pc = "post"
    /\ workers[m_evo_thread].kind = "int"
    /\ workers[m_evo_thread].pres = 2
    /\ workers[m_evo_thread].posts = 1
    /\ ~join_returns

\* C31: the local arrays of evolve stay in step with the population: before
\* the first sweep and at the end of every sweep, after the exchange, the
\* cur_x of every slot is popold of the slot and its cur_f is fit of the
\* slot; and at every point of the call gbfit is not strictly worse than
\* any fit[i].
C31_LocalsInStepWithPopulation ==
    "popold" \in DOMAIN ev =>
        /\ \A i \in DOMAIN ev.fit : ~compare_fitness(ev.fit[i], ev.gbfit)
        /\ DOMAIN ev.popold = DOMAIN population.ind
        /\ DOMAIN ev.fit = DOMAIN population.ind
        /\ ev.pc = "returned" \/ ev.i = 0 =>
               \A i \in DOMAIN population.ind :
                   /\ population.ind[i].cur_x = ev.popold[i]
                   /\ population.ind[i].cur_f = ev.fit[i]

\* the end of a sweep in which the trial of the first individual was taken
\* and was a new global best, and the trial of another one was taken too
C31_Witness ==
    /\ ev.pc = "returned"
    /\ "popold" \in DOMAIN ev
    /\ ev.popold[0] # ev.popnew[0]
    /\ ev.fit[0] = ev.gbfit
    /\ population.ind[0].cur_x = ev.popold[0]
    /\ \E k \in DOMAIN ev.fit \ {0} :
           /\ ev.popold[k] # ev.popnew[k]
           /\ ev.gbfit < ev.fit[k]
           /\ population.ind[k].cur_f = ev.fit[k]

====
